---- MODULE Spec2Model ----
(***************************************************************************)
(* Roster optimization engine of instamart-roster                          *)
(* (src/lib/workers/solver.worker.ts): the shift catalogue, the variable   *)
(* pruner, the LP builder, the two-phase solver driver and the roster      *)
(* reifier, as a state machine of one solve request.                       *)
(*                                                                         *)
(* Numbers with a fractional part are kept as scaled integers:             *)
(*   - percentages of the config and primal values of the solver in tenths *)
(*     (Tenths), so that Math.round is a real rounding;                    *)
(*   - coverage coefficients as printed by toFixed(8), in units of 10^-8   *)
(*     (CoeffScale).                                                       *)
(* The MIP solver (HiGHS) is a black box: a call returns status Optimal    *)
(* with an optimal assignment of the model it was given, or another        *)
(* status, or throws.                                                      *)
(***************************************************************************)
EXTENDS Integers, Sequences, FiniteSets, TLC

\* --- Bounds of the model ---------------------------------------------------
\* Largest headcount the solver search enumerates in full.
MaxWorkers == 2
\* Largest headcount of the assignments that put every worker on one template.
MaxCrew == 5
\* Longest run of consecutive positive-demand hours in an input matrix.
MaxRun == 4

\* --- Scales ----------------------------------------------------------------
CoeffScale == 100000000
NoDayOff == -1

\* Math.round(x) for x given in tenths: floor(x + 0.5).
MathRound(x10) == (x10 + 5) \div 10

\* The integer n as a number in tenths.
Tenths(n) == n * 10

\* Math.ceil(a / b) for integers a >= 0, b > 0.
MathCeilDiv(a, b) == (a + b - 1) \div b

\* (num/den).toFixed(8), in units of 10^-8 (round to nearest).
toFixed8(num, den) == (num * CoeffScale + den \div 2) \div den

\* --- Sequence helpers ------------------------------------------------------
Range(seq) == {seq[i] : i \in 1..Len(seq)}

Includes(seq, x) == \E i \in 1..Len(seq) : seq[i] = x

\* concatenation of seqs[lo..hi] (halving keeps the evaluation shallow)
RECURSIVE FlattenRange(_, _, _)
FlattenRange(seqs, lo, hi) ==
  IF lo > hi THEN <<>>
  ELSE IF lo = hi THEN seqs[lo]
  ELSE LET mid == (lo + hi) \div 2
       IN FlattenRange(seqs, lo, mid) \o FlattenRange(seqs, mid + 1, hi)

Flatten(seqs) == FlattenRange(seqs, 1, Len(seqs))

RECURSIVE SumRange(_, _, _)
SumRange(seq, lo, hi) ==
  IF lo > hi THEN 0
  ELSE IF lo = hi THEN seq[lo]
  ELSE LET mid == (lo + hi) \div 2
       IN SumRange(seq, lo, mid) + SumRange(seq, mid + 1, hi)

SumSeq(seq) == SumRange(seq, 1, Len(seq))

\* --- Shift definitions -----------------------------------------------------
\* variant: 16:00 admitted as a full-time start
FT_STARTS_WithSixteen ==
  <<5, 6, 7, 8, 9, 10, 11, 12, 13, 14, 15, 16, 20, 21, 22, 23>>

\* variant: no full-time start in the evening
FT_STARTS_DaytimeOnly == <<5, 6, 7, 8, 9, 10, 11, 12, 13, 14, 15>>

FT_STARTS == <<5, 6, 7, 8, 9, 10, 11, 12, 13, 14, 15, 20, 21, 22, 23>>
PT_STARTS == [i \in 1..16 |-> i + 4]
WFT_STARTS == [i \in 1..11 |-> i + 4]

MON_FRI == <<0, 1, 2, 3, 4>>
ALL_DAYS == <<0, 1, 2, 3, 4, 5, 6>>

raw9(s) == [i \in 1..9 |-> s + i - 1]

ptHours(s) == <<s, s + 1, s + 2, s + 3>>

\* rank of window index i in the stable descending sort of the window demands
smearedRank(demands, i) ==
  Cardinality({j \in 1..9 : demands[j] > demands[i]
                            \/ (demands[j] = demands[i] /\ j < i)})

\* variant: the hours after midnight are read from the row of the shift day
smearedCoeff_SameDayRow(oph, s, shiftDay, rawH) ==
  LET hours == raw9(s)
      demands == [i \in 1..9 |-> oph[shiftDay][hours[i] % 24]]
      rawIdx == CHOOSE i \in 1..9 : hours[i] = rawH
  IN IF smearedRank(demands, rawIdx) < 3 THEN <<1, 1>> ELSE <<5, 6>>

\* Coefficient of raw hour rawH of a 9-hour shift started at s on shiftDay,
\* as the fraction <<numerator, denominator>>.
smearedCoeff(oph, s, shiftDay, rawH) ==
  LET hours == raw9(s)
      demands == [i \in 1..9 |->
                    LET rh == hours[i]
                        day == IF rh < 24 THEN shiftDay ELSE (shiftDay + 1) % 7
                    IN oph[day][rh % 24]]
      rawIdx == CHOOSE i \in 1..9 : hours[i] = rawH
  IN IF smearedRank(demands, rawIdx) < 3 THEN <<1, 1>> ELSE <<5, 6>>

\* --- Variable naming -------------------------------------------------------
varFT(s, p) == [type |-> "FT", s |-> s, p |-> p]
varPT(s, p) == [type |-> "PT", s |-> s, p |-> p]
varWFT(s) == [type |-> "WFT", s |-> s, p |-> NoDayOff]
varWPT(s) == [type |-> "WPT", s |-> s, p |-> NoDayOff]

\* --- Variable pre-filtering ------------------------------------------------
\* variant: only the hours before midnight keep a full-time template
isActiveFT_SameDayOnly(oph, s, p) ==
  LET sameDayRaw == SelectSeq(raw9(s), LAMBDA rh : rh < 24)
  IN \E i \in 1..Len(ALL_DAYS) :
       LET d == ALL_DAYS[i] IN
       /\ d # p
       /\ \E k \in 1..Len(sameDayRaw) : oph[d][sameDayRaw[k]] > 0

isActiveFT(oph, s, p) ==
  LET sameDayRaw == SelectSeq(raw9(s), LAMBDA rh : rh < 24)
      nextDayRaw == SelectSeq(raw9(s), LAMBDA rh : rh >= 24)
  IN \E i \in 1..Len(ALL_DAYS) :
       LET d == ALL_DAYS[i] IN
       /\ d # p
       /\ \/ \E k \in 1..Len(sameDayRaw) : oph[d][sameDayRaw[k]] > 0
          \/ /\ Len(nextDayRaw) > 0
             /\ \E k \in 1..Len(nextDayRaw) :
                  oph[(d + 1) % 7][nextDayRaw[k] - 24] > 0

\* variant: the day off is not excluded when looking for demand
isActivePT_AnyDay(oph, s, p) ==
  LET hrs == ptHours(s)
  IN \E i \in 1..Len(ALL_DAYS) :
       \E k \in 1..Len(hrs) : oph[ALL_DAYS[i]][hrs[k]] > 0

isActivePT(oph, s, p) ==
  LET hrs == ptHours(s)
  IN \E i \in 1..Len(ALL_DAYS) :
       /\ ALL_DAYS[i] # p
       /\ \E k \in 1..Len(hrs) : oph[ALL_DAYS[i]][hrs[k]] > 0

\* variant: every weekend full-time start is kept, whatever the demand
isActiveWFT_Always(oph, s) == TRUE

isActiveWFT(oph, s) ==
  \E k \in 1..9 :
    LET rh == raw9(s)[k] IN rh < 24 /\ \E d \in {5, 6} : oph[d][rh] > 0

isActiveWPT(oph, s) ==
  \E k \in 1..4 : \E d \in {5, 6} : oph[d][ptHours(s)[k]] > 0

\* --- LP builder ------------------------------------------------------------
\* A term is <<coefficient, variable>>; a row holds iff
\*   sum(coefficient * value) sense rhs * scale.
\* Coverage rows carry toFixed(8) coefficients (scale CoeffScale), cap rows
\* integer ones (scale 1).
\* starts.forEach((s) => days.forEach((p) => ...)): the pairs <<s, p>> in
\* the order they are visited
CrossPairs(starts, days) ==
  [i \in 1..(Len(starts) * Len(days)) |->
     <<starts[((i - 1) \div Len(days)) + 1], days[((i - 1) % Len(days)) + 1]>>]

ftTemplates(days) ==
  LET pairs == CrossPairs(FT_STARTS, days)
  IN [i \in 1..Len(pairs) |-> varFT(pairs[i][1], pairs[i][2])]

ptTemplates(days) ==
  LET pairs == CrossPairs(PT_STARTS, days)
  IN [i \in 1..Len(pairs) |-> varPT(pairs[i][1], pairs[i][2])]

\* variant: part-timers are used for any cap >= 0
usePT_NonNegative(config) == MathRound(config.partTimerCapPct) >= 0

capPtOf(config) == MathRound(config.partTimerCapPct)
capWkOf(config) == MathRound(config.weekenderCapPct)
usePT(config) == capPtOf(config) > 0
useWFT(config) == capWkOf(config) > 0
\* variant: weekend part-timers depend on the weekender cap only
useWPT_IgnoresPtCap(config) == capWkOf(config) > 0

useWPT(config) == capPtOf(config) > 0 /\ capWkOf(config) > 0
DAY_OFF_DAYS(config) == IF config.allowWeekendDayOff THEN ALL_DAYS ELSE MON_FRI

ftVarsOf(oph, config) ==
  SelectSeq(ftTemplates(DAY_OFF_DAYS(config)),
            LAMBDA v : isActiveFT(oph, v.s, v.p))

ptVarsOf(oph, config) ==
  IF usePT(config)
  THEN SelectSeq(ptTemplates(DAY_OFF_DAYS(config)),
                 LAMBDA v : isActivePT(oph, v.s, v.p))
  ELSE <<>>

wftVarsOf(oph, config) ==
  IF useWFT(config)
  THEN SelectSeq([i \in 1..Len(WFT_STARTS) |-> varWFT(WFT_STARTS[i])],
                 LAMBDA v : isActiveWFT(oph, v.s))
  ELSE <<>>

wptStartsOf(oph, config) ==
  IF useWPT(config)
  THEN SelectSeq([i \in 1..Len(PT_STARTS) |-> varWPT(PT_STARTS[i])],
                 LAMBDA v : isActiveWPT(oph, v.s))
  ELSE <<>>

\* variant: an overnight term is dropped when the day off is the day the
\* wrapped hour lands on
coverageTerms_OffOnLandingDay(oph, d, h, ftVars, ptVars, wftVars, wptStarts) ==
  LET prevDay == (d - 1 + 7) % 7
      ftSame == SelectSeq(ftVars, LAMBDA v :
                  /\ d # v.p
                  /\ Includes(SelectSeq(raw9(v.s), LAMBDA rh : rh < 24), h))
      ftOver == SelectSeq(ftVars, LAMBDA v :
                  /\ ~(v.s < 20)
                  /\ v.p # d
                  /\ Includes(raw9(v.s), h + 24))
      pt == SelectSeq(ptVars, LAMBDA v : d # v.p /\ Includes(ptHours(v.s), h))
      wft == IF d = 5 \/ d = 6
             THEN SelectSeq(wftVars, LAMBDA v : Includes(raw9(v.s), h))
             ELSE <<>>
      wpt == IF d = 5 \/ d = 6
             THEN SelectSeq(wptStarts, LAMBDA v : Includes(ptHours(v.s), h))
             ELSE <<>>
      sm(v, day, rawH) ==
        LET c == smearedCoeff(oph, v.s, day, rawH) IN <<toFixed8(c[1], c[2]), v>>
  IN [i \in 1..Len(ftSame) |-> sm(ftSame[i], d, h)]
     \o [i \in 1..Len(ftOver) |-> sm(ftOver[i], prevDay, h + 24)]
     \o [i \in 1..Len(pt) |-> <<CoeffScale, pt[i]>>]
     \o [i \in 1..Len(wft) |-> sm(wft[i], d, h)]
     \o [i \in 1..Len(wpt) |-> <<CoeffScale, wpt[i]>>]

\* terms of the coverage row of cell (d, h), in the order they are pushed
coverageTerms(oph, d, h, ftVars, ptVars, wftVars, wptStarts) ==
  LET prevDay == (d - 1 + 7) % 7
      ftSame == SelectSeq(ftVars, LAMBDA v :
                  /\ d # v.p
                  /\ Includes(SelectSeq(raw9(v.s), LAMBDA rh : rh < 24), h))
      ftOver == SelectSeq(ftVars, LAMBDA v :
                  /\ ~(v.s < 20)
                  /\ v.p # prevDay
                  /\ Includes(raw9(v.s), h + 24))
      pt == SelectSeq(ptVars, LAMBDA v : d # v.p /\ Includes(ptHours(v.s), h))
      wft == IF d = 5 \/ d = 6
             THEN SelectSeq(wftVars, LAMBDA v : Includes(raw9(v.s), h))
             ELSE <<>>
      wpt == IF d = 5 \/ d = 6
             THEN SelectSeq(wptStarts, LAMBDA v : Includes(ptHours(v.s), h))
             ELSE <<>>
      sm(v, day, rawH) ==
        LET c == smearedCoeff(oph, v.s, day, rawH) IN <<toFixed8(c[1], c[2]), v>>
  IN [i \in 1..Len(ftSame) |-> sm(ftSame[i], d, h)]
     \o [i \in 1..Len(ftOver) |-> sm(ftOver[i], prevDay, h + 24)]
     \o [i \in 1..Len(pt) |-> <<CoeffScale, pt[i]>>]
     \o [i \in 1..Len(wft) |-> sm(wft[i], d, h)]
     \o [i \in 1..Len(wpt) |-> <<CoeffScale, wpt[i]>>]

coverageRows(oph, rate, ftVars, ptVars, wftVars, wptStarts) ==
  LET cell(i) == <<(i - 1) \div 24, (i - 1) % 24>>
      row(i) ==
        LET d == cell(i)[1]
            h == cell(i)[2]
        IN IF oph[d][h] <= 0 THEN <<>>
           ELSE LET terms == coverageTerms(oph, d, h, ftVars, ptVars,
                                           wftVars, wptStarts)
                IN IF Len(terms) = 0 THEN <<>>
                   ELSE << [kind |-> "coverage", terms |-> terms,
                            sense |-> ">=",
                            rhs |-> MathCeilDiv(oph[d][h], rate),
                            scale |-> CoeffScale] >>
  IN Flatten([i \in 1..(7 * 24) |-> row(i)])

\* variant: the two groups of a cap row exchanged
capRow_Reversed(kind, plus, minus, cap) ==
  [kind |-> kind,
   terms |-> [i \in 1..Len(minus) |-> <<100 - cap, minus[i]>>]
             \o [i \in 1..Len(plus) |-> <<0 - cap, plus[i]>>],
   sense |-> "<=", rhs |-> 0, scale |-> 1]

\* variant: the cap is rounded up to a whole worker (slack of 99 hundredths)
capRow_RoundedUp(kind, plus, minus, cap) ==
  [kind |-> kind,
   terms |-> [i \in 1..Len(plus) |-> <<100 - cap, plus[i]>>]
             \o [i \in 1..Len(minus) |-> <<0 - cap, minus[i]>>],
   sense |-> "<=", rhs |-> 99, scale |-> 1]

capRow(kind, plus, minus, cap) ==
  [kind |-> kind,
   terms |-> [i \in 1..Len(plus) |-> <<100 - cap, plus[i]>>]
             \o [i \in 1..Len(minus) |-> <<0 - cap, minus[i]>>],
   sense |-> "<=", rhs |-> 0, scale |-> 1]

\* variant: phase 2 minimises the part-timers
buildLP_Phase2MinimisesPartTime(input, phase, totalCap) ==
  LET oph == input.oph
      config == input.config
      rate == config.productivityRate
      capPt == capPtOf(config)
      capWk == capWkOf(config)
      ftVars == ftVarsOf(oph, config)
      ptVars == ptVarsOf(oph, config)
      wftVars == wftVarsOf(oph, config)
      wptStarts == wptStartsOf(oph, config)
      all == ftVars \o ptVars \o wftVars \o wptStarts
      ptCap == IF usePT(config) /\ capPt < 100
               THEN << capRow("ptcap", ptVars \o wptStarts,
                              ftVars \o wftVars, capPt) >>
               ELSE <<>>
      wkCap == IF (useWFT(config) \/ useWPT(config)) /\ capWk < 100
               THEN << capRow("wkcap", wftVars \o wptStarts,
                              ftVars \o ptVars, capWk) >>
               ELSE <<>>
      total == IF phase = 2 /\ totalCap > 0
               THEN << [kind |-> "total",
                        terms |-> [i \in 1..Len(all) |-> <<1, all[i]>>],
                        sense |-> "<=", rhs |-> totalCap, scale |-> 1] >>
               ELSE <<>>
  IN [obj |-> IF phase = 1 THEN all ELSE ptVars \o wptStarts,
      rows |-> coverageRows(oph, rate, ftVars, ptVars, wftVars, wptStarts)
               \o ptCap \o wkCap \o total,
      bounds |-> all,
      generals |-> all]

\* variant: the phase-2 model has no headcount row
buildLP_NoTotalRow(input, phase, totalCap) ==
  LET oph == input.oph
      config == input.config
      rate == config.productivityRate
      capPt == capPtOf(config)
      capWk == capWkOf(config)
      ftVars == ftVarsOf(oph, config)
      ptVars == ptVarsOf(oph, config)
      wftVars == wftVarsOf(oph, config)
      wptStarts == wptStartsOf(oph, config)
      all == ftVars \o ptVars \o wftVars \o wptStarts
      ptCap == IF usePT(config) /\ capPt < 100
               THEN << capRow("ptcap", ptVars \o wptStarts,
                              ftVars \o wftVars, capPt) >>
               ELSE <<>>
      wkCap == IF (useWFT(config) \/ useWPT(config)) /\ capWk < 100
               THEN << capRow("wkcap", wftVars \o wptStarts,
                              ftVars \o ptVars, capWk) >>
               ELSE <<>>
      total == <<>>
  IN [obj |-> IF phase = 1 THEN all ELSE ftVars \o wftVars,
      rows |-> coverageRows(oph, rate, ftVars, ptVars, wftVars, wptStarts)
               \o ptCap \o wkCap \o total,
      bounds |-> all,
      generals |-> all]

buildLP(input, phase, totalCap) ==
  LET oph == input.oph
      config == input.config
      rate == config.productivityRate
      capPt == capPtOf(config)
      capWk == capWkOf(config)
      ftVars == ftVarsOf(oph, config)
      ptVars == ptVarsOf(oph, config)
      wftVars == wftVarsOf(oph, config)
      wptStarts == wptStartsOf(oph, config)
      all == ftVars \o ptVars \o wftVars \o wptStarts
      ptCap == IF usePT(config) /\ capPt < 100
               THEN << capRow("ptcap", ptVars \o wptStarts,
                              ftVars \o wftVars, capPt) >>
               ELSE <<>>
      wkCap == IF (useWFT(config) \/ useWPT(config)) /\ capWk < 100
               THEN << capRow("wkcap", wftVars \o wptStarts,
                              ftVars \o ptVars, capWk) >>
               ELSE <<>>
      total == IF phase = 2 /\ totalCap > 0
               THEN << [kind |-> "total",
                        terms |-> [i \in 1..Len(all) |-> <<1, all[i]>>],
                        sense |-> "<=", rhs |-> totalCap, scale |-> 1] >>
               ELSE <<>>
  IN [obj |-> IF phase = 1 THEN all ELSE ftVars \o wftVars,
      rows |-> coverageRows(oph, rate, ftVars, ptVars, wftVars, wptStarts)
               \o ptCap \o wkCap \o total,
      bounds |-> all,
      generals |-> all]

\* --- Roster builder --------------------------------------------------------
\* solution[name] ?? 0
primalOf(solution, v) == IF v \in DOMAIN solution THEN solution[v] ELSE 0

\* variant: the fifth hour of a 9-hour window is left out as the break
productiveHoursOf_DropsBreak(v) ==
  CASE v.type = "FT" ->
         [i \in 1..8 |-> raw9(v.s)[IF i < 5 THEN i ELSE i + 1] % 24]
    [] v.type = "WFT" ->
         [i \in 1..8 |-> raw9(v.s)[IF i < 5 THEN i ELSE i + 1]]
    [] OTHER -> ptHours(v.s)

productiveHoursOf(v) ==
  CASE v.type = "FT" -> [i \in 1..9 |-> raw9(v.s)[i] % 24]
    [] v.type = "WFT" -> raw9(v.s)
    [] OTHER -> ptHours(v.s)

shiftLength(type) == IF type \in {"FT", "WFT"} THEN 9 ELSE 4

workerSlot(id, v) ==
  [id |-> id, type |-> v.type,
   shiftStart |-> v.s, shiftEnd |-> v.s + shiftLength(v.type),
   dayOff |-> v.p,
   productiveHours |-> productiveHoursOf(v)]

\* variant: id is not advanced after a push
RECURSIVE pushWorkers_SameId(_, _, _, _)
pushWorkers_SameId(acc, v, i, count) ==
  IF ~(i < count) THEN acc
  ELSE pushWorkers_SameId(
         [acc EXCEPT !.workers = Append(@, workerSlot(acc.id, v)),
                     !.counts[v.type] = @ + 1],
         v, i + 1, count)

\* for (let i = 0; i < count; i++) { workers.push({ id: id++, ... }); n++ }
RECURSIVE pushWorkers(_, _, _, _)
pushWorkers(acc, v, i, count) ==
  IF ~(i < count) THEN acc
  ELSE pushWorkers(
         [acc EXCEPT !.workers = Append(@, workerSlot(acc.id, v)),
                     !.id = @ + 1,
                     !.counts[v.type] = @ + 1],
         v, i + 1, count)

\* the templates lo..hi visited in order. The range is halved and the first
\* half is evaluated (the test on left.id, which is always >= 1) before the
\* second starts from it: this only keeps the evaluation shallow.
RECURSIVE expandTemplates(_, _, _, _, _)
expandTemplates(acc, templates, lo, hi, solution) ==
  IF lo > hi THEN acc
  ELSE IF lo = hi
  THEN pushWorkers(acc, templates[lo], 0,
                   MathRound(primalOf(solution, templates[lo])))
  ELSE LET mid == (lo + hi) \div 2
           left == expandTemplates(acc, templates, lo, mid, solution)
       IN IF left.id >= 1
          THEN expandTemplates(left, templates, mid + 1, hi, solution)
          ELSE left

\* the templates in the order buildRoster visits them
rosterTemplates(dayOffDays) ==
  ftTemplates(dayOffDays)
  \o ptTemplates(dayOffDays)
  \o [i \in 1..Len(WFT_STARTS) |-> varWFT(WFT_STARTS[i])]
  \o [i \in 1..Len(PT_STARTS) |-> varWPT(PT_STARTS[i])]

\* variant: the day off is not filtered out of the active days
activeDays_EveryDay(w) ==
  IF w.type = "WFT" \/ w.type = "WPT" THEN <<5, 6>> ELSE ALL_DAYS

\* variant: weekenders are active like the other types
activeDays_WeekendersAllWeek(w) ==
  SelectSeq(ALL_DAYS, LAMBDA d : d # w.dayOff)

activeDays(w) ==
  IF w.type = "WFT" \/ w.type = "WPT"
  THEN <<5, 6>>
  ELSE SelectSeq(ALL_DAYS, LAMBDA d : d # w.dayOff)

\* variant: a wrapped hour stays on the day the shift started
incrementOf_SameDay(w, d, h) ==
  IF h >= 0 /\ h < 24
  THEN << [from |-> d, day |-> d, hour |-> h] >>
  ELSE <<>>

\* the cell one productive hour h of worker w lands on for active day d;
\* <<>> when the hour is outside 0..23
incrementOf(w, d, h) ==
  IF h >= 0 /\ h < 24
  THEN IF h < w.shiftStart
       THEN << [from |-> d, day |-> (d + 1) % 7, hour |-> h] >>
       ELSE << [from |-> d, day |-> d, hour |-> h] >>
  ELSE <<>>

\* the coverage increments made for worker w, in order
incrementsOf(w) ==
  LET days == activeDays(w)
      hrs == w.productiveHours
  IN Flatten([i \in 1..(Len(days) * Len(hrs)) |->
       incrementOf(w, days[((i - 1) \div Len(hrs)) + 1],
                   hrs[((i - 1) % Len(hrs)) + 1])])

\* coverage[day][hour]++ for the increments lo..hi, in order (halved like
\* expandTemplates; the test on left[0][0] is always true)
RECURSIVE applyIncrements(_, _, _, _)
applyIncrements(coverage, incs, lo, hi) ==
  IF lo > hi THEN coverage
  ELSE IF lo = hi
  THEN [coverage EXCEPT ![incs[lo].day][incs[lo].hour] = @ + 1]
  ELSE LET mid == (lo + hi) \div 2
           left == applyIncrements(coverage, incs, lo, mid)
       IN IF left[0][0] >= 0
          THEN applyIncrements(left, incs, mid + 1, hi)
          ELSE left

zeroMatrix == [d \in 0..6 |-> [h \in 0..23 |-> 0]]

coverageOf(workers) ==
  LET incs == Flatten([i \in 1..Len(workers) |-> incrementsOf(workers[i])])
  IN applyIncrements(zeroMatrix, incs, 1, Len(incs))

buildRoster(solution, oph, dayOffDays) ==
  LET acc == expandTemplates(
               [workers |-> <<>>, id |-> 1,
                counts |-> [ty \in {"FT", "PT", "WFT", "WPT"} |-> 0]],
               rosterTemplates(dayOffDays), 1,
               Len(rosterTemplates(dayOffDays)), solution)
  IN [workers |-> acc.workers,
      coverage |-> coverageOf(acc.workers),
      ftCount |-> acc.counts["FT"], ptCount |-> acc.counts["PT"],
      wftCount |-> acc.counts["WFT"], wptCount |-> acc.counts["WPT"]]

\* --- The MIP solver (consumed capability) ----------------------------------
\* An integer assignment is a non-decreasing sequence of indices into the
\* declared variables (lp.generals): one index per worker hired.
RECURSIVE PicksOfLen(_, _)
PicksOfLen(n, k) ==
  IF k = 0 THEN {<<>>}
  ELSE UNION {{Append(q, i) : i \in (IF k = 1 THEN 1 ELSE q[k - 1])..n}
              : q \in PicksOfLen(n, k - 1)}

PicksUpTo(n, k) == UNION {PicksOfLen(n, j) : j \in 0..k}

\* coefficient of every declared variable in a row (0 when absent); at[i] is
\* the position among the declared variables of the row's i-th term
RECURSIVE sumTerms(_, _)
sumTerms(terms, hits) ==
  IF hits = {} THEN 0
  ELSE LET i == CHOOSE x \in hits : TRUE
       IN terms[i][1] + sumTerms(terms, hits \ {i})

rowCoefficients(row, n, index) ==
  LET at == SubSeq([i \in 1..Len(row.terms) |-> index[row.terms[i][2]]],
                   1, Len(row.terms))
  IN SubSeq([j \in 1..n |->
               sumTerms(row.terms, {i \in 1..Len(row.terms) : at[i] = j})],
            1, n)

rowHolds(row, lhs) ==
  IF row.sense = ">=" THEN lhs >= row.rhs * row.scale
                      ELSE lhs <= row.rhs * row.scale

\* k workers on the variable j, for lo <= k <= hi
crewPicks(n, lo, hi) == {[i \in 1..k |-> j] : j \in 1..n, k \in lo..hi}

\* the integer assignments of at most `most` workers that satisfy every row
\* of lp and minimise its objective; when none exists, the optimal ones
\* among the crews of more than `most` workers
optimalPicks(lp, most) ==
  LET vars == lp.generals
      index == [v \in Range(vars) |-> CHOOSE j \in 1..Len(vars) : vars[j] = v]
      coef == SubSeq([r \in 1..Len(lp.rows) |->
                        rowCoefficients(lp.rows[r], Len(vars), index)],
                     1, Len(lp.rows))
      inObj == SubSeq([j \in 1..Len(vars) |->
                         IF Includes(lp.obj, vars[j]) THEN 1 ELSE 0],
                      1, Len(vars))
      lhs(r, picks) == SumSeq([i \in 1..Len(picks) |-> coef[r][picks[i]]])
      cost(picks) == SumSeq([i \in 1..Len(picks) |-> inObj[picks[i]]])
      feasible == {picks \in PicksUpTo(Len(vars), most) :
                     \A r \in 1..Len(lp.rows) : rowHolds(lp.rows[r], lhs(r, picks))}
      best == CHOOSE c \in 0..most :
                /\ \E picks \in feasible : cost(picks) = c
                /\ \A picks \in feasible : cost(picks) >= c
      \* beyond `most` workers: the crews that satisfy every row, kept when
      \* their cost meets a lower bound of the objective
      crews == {picks \in crewPicks(Len(vars), most + 1, MaxCrew) :
                  \A r \in 1..Len(lp.rows) : rowHolds(lp.rows[r], lhs(r, picks))}
      bounded == {r \in 1..Len(lp.rows) :
                    /\ lp.rows[r].sense = ">="
                    /\ \A j \in 1..Len(vars) :
                         coef[r][j] # 0 => (coef[r][j] > 0 /\ inObj[j] = 1)
                    /\ \E j \in 1..Len(vars) : coef[r][j] > 0}
      needs(r) == LET top == CHOOSE c \in Range(coef[r]) :
                               \A j \in 1..Len(vars) : coef[r][j] <= c
                  IN MathCeilDiv(lp.rows[r].rhs * lp.rows[r].scale, top)
      lowerBound == IF bounded = {} THEN 0
                    ELSE CHOOSE b \in {needs(r) : r \in bounded} :
                           \A r \in bounded : needs(r) <= b
  IN IF feasible # {} THEN {picks \in feasible : cost(picks) = best}
     ELSE {picks \in crews : cost(picks) = lowerBound}

\* Columns of a solver result: every declared variable with its primal value
columnsOf(lp, declared, picks) ==
  [v \in declared |->
     Tenths(Cardinality({i \in 1..Len(picks) : lp.generals[picks[i]] = v}))]

\* statuses other than Optimal that the solver reports
NonOptimalStatuses == {"Infeasible", "Time limit reached"}

\* messages of the errors the solver is known to throw
Diagnostics == {"Aborted()", "memory access out of bounds"}

\* primal values that are not non-negative integers (in tenths)
AnomalousPrimals == {-6, 5, 14}

\* the solver never needs more workers than a headcount row allows
searchBound(lp) ==
  LET caps == {lp.rows[r].rhs : r \in {q \in 1..Len(lp.rows) :
                                         lp.rows[q].kind = "total"}}
  IN IF caps = {} THEN MaxWorkers
     ELSE LET c == CHOOSE x \in caps : TRUE
          IN IF c < MaxWorkers THEN c ELSE MaxWorkers

\* results with status Optimal: an optimal integer assignment
optimalResults(lp) ==
  LET declared == Range(lp.generals)
  IN {[Status |-> "Optimal", Columns |-> columnsOf(lp, declared, picks)]
        : picks \in optimalPicks(lp, searchBound(lp))}

\* results with status Optimal whose primal values carry a numeric anomaly
anomalousResults(lp) ==
  {[Status |-> "Optimal",
    Columns |-> [v \in Range(lp.generals) |-> IF v = lp.generals[j] THEN a ELSE 0]]
     : j \in {1, Len(lp.generals)} \ {0}, a \in AnomalousPrimals}

\* --- Inputs ----------------------------------------------------------------
\* demand matrices: on every day of `days` a run of len consecutive hours of
\* v orders starts at hour h0 and continues after midnight into the next day
runMatrix(days, h0, len, v) ==
  [dd \in 0..6 |-> [hh \in 0..23 |->
     IF \E d \in days, i \in 0..(len - 1) :
          /\ dd = (d + (h0 + i) \div 24) % 7
          /\ hh = (h0 + i) % 24
     THEN v ELSE 0]]

\* the runs start at 23:00, either on Sunday only or on the five nights from
\* Sunday to Thursday; a run of several hours is nightly with 12 orders an hour
SundayOnly == {6}
Nightly == {6, 0, 1, 2, 3}
DemandValues == {12, 13}

RunShapes ==
  {s \in {SundayOnly, Nightly} \X (0..MaxRun) \X DemandValues :
     \/ s[2] = 1
     \/ s[1] = Nightly /\ s[3] = 12}

Demands == {runMatrix(s[1], 23, s[2], s[3]) : s \in RunShapes}

\* percentages in tenths: 0, 0.4 (rounds to 0), 50, 100
PtCapPcts == {0, 4, 500, 1000}
WkCapPcts == {0, 500, 1000}

Configs ==
  {c \in [productivityRate : {12}, partTimerCapPct : PtCapPcts,
           weekenderCapPct : WkCapPcts, allowWeekendDayOff : BOOLEAN] :
     c.allowWeekendDayOff =>
       (c.partTimerCapPct = 500 /\ c.weekenderCapPct = 500)}

\* the Sunday-only peak of 13 orders is tried without part-timers, and with
\* both caps at 50%
NightInputs ==
  {in \in [oph : Demands, config : Configs] :
     (in.oph[6][23] = 13 /\ in.oph[0][23] = 0)
       => \/ MathRound(in.config.partTimerCapPct) = 0
          \/ /\ in.config.partTimerCapPct = 500
             /\ in.config.weekenderCapPct = 500
             /\ ~in.config.allowWeekendDayOff}

\* v orders in each of the given cells <<day, hour>>, none elsewhere
cellMatrix(cells, v) ==
  [d \in 0..6 |-> [h \in 0..23 |-> IF <<d, h>> \in cells THEN v ELSE 0]]

\* the configuration the panel starts with (allowWeekendDayOff is not set)
DefaultConfig ==
  [productivityRate |-> 12, partTimerCapPct |-> 400, weekenderCapPct |-> 300,
   allowWeekendDayOff |-> FALSE]

\* no part-timers, no weekender cap
WeekenderConfig ==
  [productivityRate |-> 12, partTimerCapPct |-> 0, weekenderCapPct |-> 1000,
   allowWeekendDayOff |-> FALSE]

\* the documented scenarios: no demand; Monday 10:00; Monday 02:00; Saturday
\* and Sunday 10:00
ZeroDemand == [oph |-> cellMatrix({}, 0), config |-> DefaultConfig]
MondaySpike == [oph |-> cellMatrix({<<0, 10>>}, 12), config |-> DefaultConfig]
MondayNight == [oph |-> cellMatrix({<<0, 2>>}, 12), config |-> DefaultConfig]
WeekendPeak ==
  [oph |-> cellMatrix({<<5, 10>>, <<6, 10>>}, 60), config |-> WeekenderConfig]

ScenarioInputs == {ZeroDemand, MondaySpike, MondayNight, WeekendPeak}

Inputs == NightInputs \cup ScenarioInputs

\* --- State -----------------------------------------------------------------
VARIABLES
  request,   \* e.data of the message the worker receives
  pc,        \* where self.onmessage stands
  posted,    \* the messages posted with self.postMessage, in order
  solves,    \* the solver calls made: <<instance, phase>>
  lp1, lp2,  \* the models handed to the solver
  r1,        \* what the solver returned for lp1
  result,    \* the solver result the roster is built from
  nOpt,      \* rounded sum of the phase-1 primal values
  earlier,   \* what an earlier run on the same request delivered
  client     \* runOptimizer's side: the promise, the worker handle, the callback

vars ==
  <<request, pc, posted, solves, lp1, lp2, r1, result, nOpt, earlier, client>>

NoLP == [none |-> TRUE]
NoResult == [Status |-> "none"]
NoRun == [none |-> TRUE]

\* runOptimizer has created the worker and posted the request: the promise is
\* pending, no message of the worker has been handled
NewCall ==
  [handled |-> 0,            \* messages of the worker handled by worker.onmessage
   promise |-> "pending",    \* pending, resolved or rejected
   settleCalls |-> 0,        \* calls of resolve or reject
   terminated |-> FALSE,     \* worker.terminate() was called
   progressCalls |-> 0,      \* calls of onProgress
   lateProgress |-> FALSE]   \* onProgress was called on a settled promise

input == request.payload

progress(message) == [type |-> "progress", message |-> message]

Init ==
  /\ request \in [type : {"solve"}, payload : Inputs]
  /\ pc = "idle"
  /\ posted = <<>>
  /\ solves = <<>>
  /\ lp1 = NoLP /\ lp2 = NoLP
  /\ r1 = NoResult /\ result = NoResult
  /\ nOpt = 0
  /\ earlier = NoRun
  /\ client = NewCall

\* --- Worker message handler ------------------------------------------------
post(m) == posted' = Append(posted, m)

\* variant: the catch block posts a result with status error
catchError_PostsResult(message) ==
  /\ post([type |-> "result",
           payload |-> [status |-> "error", workers |-> <<>>,
                        totalWorkers |-> 0, ftCount |-> 0, ptCount |-> 0,
                        wftCount |-> 0, wptCount |-> 0,
                        errorMessage |-> message]])
  /\ pc' = "done"

\* catch (err): the error's message goes out as an "error" message
catchError(message) ==
  /\ post([type |-> "error", message |-> message])
  /\ pc' = "done"

\* Object.values(cols).reduce((sum, col) => sum + col.Primal, 0)
RECURSIVE sumValues(_, _)
sumValues(cols, values) ==
  IF values = {} THEN 0
  ELSE LET x == CHOOSE y \in values : TRUE
       IN x * Cardinality({v \in DOMAIN cols : cols[v] = x})
          + sumValues(cols, values \ {x})

sumPrimals(cols) == sumValues(cols, {cols[v] : v \in DOMAIN cols})

\* variant: every failed status is reported as infeasible
failureResult_AlwaysInfeasible(status) ==
  [status |-> "infeasible",
   workers |-> <<>>, totalWorkers |-> 0,
   ftCount |-> 0, ptCount |-> 0, wftCount |-> 0, wptCount |-> 0,
   coverage |-> [d \in 0..6 |-> [h \in 0..23 |-> 0]],
   required |-> [d \in 0..6 |-> [h \in 0..23 |-> 0]],
   errorMessage |-> <<"Phase 1 solver status: ", status>>]

\* variant: the failure result carries no errorMessage
failureResult_NoMessage(status) ==
  [status |-> IF status = "Infeasible" THEN "infeasible" ELSE "error",
   workers |-> <<>>, totalWorkers |-> 0,
   ftCount |-> 0, ptCount |-> 0, wftCount |-> 0, wptCount |-> 0,
   coverage |-> [d \in 0..6 |-> [h \in 0..23 |-> 0]],
   required |-> [d \in 0..6 |-> [h \in 0..23 |-> 0]]]

failureResult(status) ==
  [status |-> IF status = "Infeasible" THEN "infeasible" ELSE "error",
   workers |-> <<>>, totalWorkers |-> 0,
   ftCount |-> 0, ptCount |-> 0, wftCount |-> 0, wptCount |-> 0,
   coverage |-> zeroMatrix,
   required |-> zeroMatrix,
   errorMessage |-> <<"Phase 1 solver status: ", status>>]

\* type === "solve": the first progress message, then the solver is loaded
Receive ==
  /\ pc = "idle"
  /\ request.type = "solve"
  /\ post(progress("Loading HiGHS solver"))
  /\ pc' = "loading"
  /\ UNCHANGED <<client, earlier, request, solves, lp1, lp2, r1, result, nOpt>>

\* the solver module loads; the phase-1 model is built
LoadSolver ==
  /\ pc = "loading"
  /\ post(progress("Phase 1"))
  /\ lp1' = buildLP(input, 1, 0)
  /\ pc' = "phase1"
  /\ UNCHANGED <<client, earlier, request, solves, lp2, r1, result, nOpt>>

\* import("highs") or highsModule.default() rejects
LoadSolverThrows ==
  /\ pc = "loading"
  /\ \E message \in Diagnostics : catchError(message)
  /\ UNCHANGED <<client, earlier, request, solves, lp1, lp2, r1, result, nOpt>>

\* variant: phase 2 runs whatever the part-timer cap
phase1Returns_AlwaysPhase2(r) ==
  /\ pc = "phase1"
  /\ solves' = Append(solves, <<1, 1>>)
  /\ r1' = r
  /\ IF r.Status # "Optimal"
     THEN /\ post([type |-> "result", payload |-> failureResult(r.Status)])
          /\ pc' = "done"
          /\ UNCHANGED <<result, nOpt>>
     ELSE LET n == MathRound(sumPrimals(r.Columns))
              runPhase2 == TRUE
          IN /\ nOpt' = n
             /\ result' = r
             /\ IF runPhase2
                THEN /\ post([type |-> "progress", message |-> "Phase 2", n |-> n])
                     /\ pc' = "loading2"
                ELSE /\ pc' = "roster"
                     /\ UNCHANGED posted
  /\ UNCHANGED <<client, earlier, request, lp1, lp2>>

\* highs.solve(lp1) returned r: the status check, N_opt, and the phase-2 gate
phase1Returns(r) ==
  /\ pc = "phase1"
  /\ solves' = Append(solves, <<1, 1>>)
  /\ r1' = r
  /\ IF r.Status # "Optimal"
     THEN /\ post([type |-> "result", payload |-> failureResult(r.Status)])
          /\ pc' = "done"
          /\ UNCHANGED <<result, nOpt>>
     ELSE LET n == MathRound(sumPrimals(r.Columns))
              runPhase2 == MathRound(input.config.partTimerCapPct) > 0
          IN /\ nOpt' = n
             /\ result' = r
             /\ IF runPhase2
                THEN /\ post([type |-> "progress", message |-> "Phase 2", n |-> n])
                     /\ pc' = "loading2"
                ELSE /\ pc' = "roster"
                     /\ UNCHANGED posted
  /\ UNCHANGED <<client, earlier, request, lp1, lp2>>

SolvePhase1 ==
  /\ pc = "phase1"
  /\ \E r \in optimalResults(lp1) : phase1Returns(r)

SolvePhase1Anomalous ==
  /\ pc = "phase1"
  /\ \E r \in anomalousResults(lp1) : phase1Returns(r)

SolvePhase1NotOptimal ==
  /\ pc = "phase1"
  /\ \E status \in NonOptimalStatuses :
    phase1Returns([Status |-> status, Columns |-> <<>>])

SolvePhase1Throws ==
  /\ pc = "phase1"
  /\ solves' = Append(solves, <<1, 1>>)
  /\ \E message \in Diagnostics : catchError(message)
  /\ UNCHANGED <<client, earlier, request, lp1, lp2, r1, result, nOpt>>

\* variant: the phase-2 model allows one worker more than phase 1 found
LoadSolver2_LooseCap ==
  /\ pc = "loading2"
  /\ lp2' = buildLP(input, 2, nOpt + 1)
  /\ pc' = "phase2"
  /\ UNCHANGED <<client, earlier, request, posted, solves, lp1, r1, result, nOpt>>

\* a fresh solver instance is created; the phase-2 model is built
LoadSolver2 ==
  /\ pc = "loading2"
  /\ lp2' = buildLP(input, 2, nOpt)
  /\ pc' = "phase2"
  /\ UNCHANGED <<client, earlier, request, posted, solves, lp1, r1, result, nOpt>>

\* creating the second instance throws: caught, phase-1 solution stays
LoadSolver2Throws ==
  /\ pc = "loading2"
  /\ pc' = "roster"
  /\ UNCHANGED <<client, earlier, request, posted, solves, lp1, lp2, r1, result, nOpt>>

\* variant: the phase-2 result replaces the phase-1 result whatever its status
phase2Returns_AdoptsAnyStatus(r2) ==
  /\ pc = "phase2"
  /\ solves' = Append(solves, <<2, 2>>)
  /\ result' = r2
  /\ r1' = IF r2.Status = "Optimal" THEN NoResult ELSE r1
  /\ pc' = "roster"
  /\ UNCHANGED <<client, earlier, request, posted, lp1, lp2, nOpt>>

\* highs2.solve(lp2) returned r2: if (r2.Status === "Optimal") result = r2;
\* r2 is local to the try block
phase2Returns(r2) ==
  /\ pc = "phase2"
  /\ solves' = Append(solves, <<2, 2>>)
  /\ result' = IF r2.Status = "Optimal" THEN r2 ELSE result
  \* r1 is not read again once result = r2: it leaves the state
  /\ r1' = IF r2.Status = "Optimal" THEN NoResult ELSE r1
  /\ pc' = "roster"
  /\ UNCHANGED <<client, earlier, request, posted, lp1, lp2, nOpt>>

SolvePhase2 ==
  /\ pc = "phase2"
  /\ \E r \in optimalResults(lp2) : phase2Returns(r)

SolvePhase2Anomalous ==
  /\ pc = "phase2"
  /\ \E r \in anomalousResults(lp2) : phase2Returns(r)

SolvePhase2NotOptimal ==
  /\ pc = "phase2"
  /\ \E status \in NonOptimalStatuses :
    phase2Returns([Status |-> status, Columns |-> <<>>])

SolvePhase2Throws ==
  /\ pc = "phase2"
  /\ solves' = Append(solves, <<2, 2>>)
  /\ pc' = "roster"
  /\ UNCHANGED <<client, earlier, request, posted, lp1, lp2, r1, result, nOpt>>

requiredOf(oph, rate) ==
  [d \in 0..6 |-> [h \in 0..23 |->
     IF oph[d][h] > 0 THEN MathCeilDiv(oph[d][h], rate) ELSE 0]]

resultPayload(solverResult, in) ==
  LET dayOffDays == IF in.config.allowWeekendDayOff THEN ALL_DAYS ELSE MON_FRI
      roster == buildRoster(solverResult.Columns, in.oph, dayOffDays)
  IN [status |-> "optimal",
      workers |-> roster.workers,
      totalWorkers |-> Len(roster.workers),
      ftCount |-> roster.ftCount, ptCount |-> roster.ptCount,
      wftCount |-> roster.wftCount, wptCount |-> roster.wptCount,
      coverage |-> roster.coverage,
      required |-> requiredOf(in.oph, in.config.productivityRate)]

\* variant: the result is posted before the last progress message
BuildRoster_ResultBeforeProgress ==
  /\ pc = "roster"
  /\ posted' = posted \o << [type |-> "result",
                             payload |-> resultPayload(result, input)],
                            progress("Building roster") >>
  /\ pc' = "done"
  /\ UNCHANGED <<client, earlier, request, solves, lp1, lp2, r1, result, nOpt>>

\* the roster is built from `result` and posted
BuildRoster ==
  /\ pc = "roster"
  /\ posted' = posted \o << progress("Building roster"),
                            [type |-> "result",
                             payload |-> resultPayload(result, input)] >>
  /\ pc' = "done"
  /\ UNCHANGED <<client, earlier, request, solves, lp1, lp2, r1, result, nOpt>>

Next ==
  \/ Receive
  \/ LoadSolver
  \/ LoadSolverThrows
  \/ SolvePhase1
  \/ SolvePhase1Anomalous
  \/ SolvePhase1NotOptimal
  \/ SolvePhase1Throws
  \/ LoadSolver2
  \/ LoadSolver2Throws
  \/ SolvePhase2
  \/ SolvePhase2Anomalous
  \/ SolvePhase2NotOptimal
  \/ SolvePhase2Throws
  \/ BuildRoster

Spec == Init /\ [][Next]_vars

\* --- Two runs on the same input --------------------------------------------
\* runOptimizer creates a new worker for every call: a second call with the
\* same input starts from the initial state of the handler; what the first
\* call resolved with is kept for comparison (status, headcount, matrices)
RunAgain ==
  /\ pc = "done"
  /\ earlier = NoRun
  /\ Len(posted) > 0 /\ posted[Len(posted)].type = "result"
  /\ earlier' = [status |-> posted[Len(posted)].payload.status,
                 totalWorkers |-> posted[Len(posted)].payload.totalWorkers,
                 coverage |-> posted[Len(posted)].payload.coverage,
                 required |-> posted[Len(posted)].payload.required]
  /\ pc' = "idle"
  /\ posted' = <<>>
  /\ solves' = <<>>
  /\ lp1' = NoLP /\ lp2' = NoLP
  /\ r1' = NoResult /\ result' = NoResult
  /\ nOpt' = 0
  /\ UNCHANGED <<client, request>>

\* the runs in which every solve that returns Optimal returns an optimal
\* assignment of the model it is given, and phase 2 may fail
NextRuns ==
  \/ Receive
  \/ LoadSolver
  \/ SolvePhase1
  \/ LoadSolver2
  \/ LoadSolver2Throws
  \/ SolvePhase2
  \/ SolvePhase2NotOptimal
  \/ SolvePhase2Throws
  \/ BuildRoster
  \/ RunAgain

\* the two runs are compared on the nightly runs of one to three hours
RunInputs == {in \in Inputs : in.oph[0][23] = 12 /\ in.oph[0][2] = 0}

InitRuns == Init /\ input \in RunInputs

SpecRuns == InitRuns /\ [][NextRuns]_vars

\* --- What a run delivers ---------------------------------------------------
lastPosted == posted[Len(posted)]

\* the request ended with a result message
Delivered == pc = "done" /\ Len(posted) > 0 /\ lastPosted.type = "result"

payloadOut == lastPosted.payload

OptimalDelivered == Delivered /\ payloadOut.status = "optimal"

\* the model whose solution the roster is built from
usedModel == IF result = r1 THEN lp1 ELSE lp2

capPt == MathRound(input.config.partTimerCapPct)
capWk == MathRound(input.config.weekenderCapPct)

\* an assignment of non-negative integers that satisfies every row of lp
IsIntegerAssignment(cols) ==
  \A v \in DOMAIN cols : cols[v] >= 0 /\ cols[v] % 10 = 0

rowValue(row, cols) ==
  SumSeq([i \in 1..Len(row.terms) |->
            row.terms[i][1] * (primalOf(cols, row.terms[i][2]) \div 10)])

satisfiesModel(lp, cols) ==
  /\ IsIntegerAssignment(cols)
  /\ \A r \in 1..Len(lp.rows) : rowHolds(lp.rows[r], rowValue(lp.rows[r], cols))

workersOut == payloadOut.workers

typesOut(types) == {i \in 1..Len(workersOut) : workersOut[i].type \in types}

\* --- C1 --------------------------------------------------------------------
\* C1 (coverage sufficiency): whenever the engine delivers status optimal from
\* an integer assignment that satisfies the model it was solved for, every
\* cell with positive demand has reported coverage at least
\* ceil(demand / productivityRate).
C1_CoverageSufficiency ==
  (OptimalDelivered /\ satisfiesModel(usedModel, result.Columns)) =>
    \A d \in 0..6, h \in 0..23 :
      input.oph[d][h] > 0 =>
        payloadOut.coverage[d][h] * input.config.productivityRate
          >= input.oph[d][h]

\* a delivered roster in which a hired template enters a coverage row with the
\* smeared coefficient 5/6: Monday 02:00 requires one worker and has two
C1_Witness ==
  /\ OptimalDelivered
  /\ satisfiesModel(usedModel, result.Columns)
  /\ \E r \in 1..Len(usedModel.rows) :
       /\ usedModel.rows[r].kind = "coverage"
       /\ \E i \in 1..Len(usedModel.rows[r].terms) :
            /\ usedModel.rows[r].terms[i][1] < CoeffScale
            /\ result.Columns[usedModel.rows[r].terms[i][2]] > 0
  /\ payloadOut.coverage[0][2] = 2
  /\ payloadOut.required[0][2] = 1

\* --- C2 --------------------------------------------------------------------
\* C2 as stated (day-off discipline): for every emitted FT or PT worker with
\* dayOff = p, overnight FT included, no coverage increment made for the
\* worker lands on a cell of day p.
C2_Original ==
  OptimalDelivered =>
    \A i \in typesOut({"FT", "PT"}) :
      \A inc \in Range(incrementsOf(workersOut[i])) :
        inc.day # workersOut[i].dayOff

\* C2 (day-off discipline, amended): for every emitted FT or PT worker with
\* dayOff = p no coverage increment comes from a shift that starts on day p;
\* an increment lands on day p only for an overnight FT worker (shiftStart
\* 20..23), from the shift started on day p-1, in a wrapped hour
\* (hour < shiftStart).
C2_DayOffDiscipline ==
  OptimalDelivered =>
    \A i \in typesOut({"FT", "PT"}) :
      LET w == workersOut[i] IN
      \A inc \in Range(incrementsOf(w)) :
        /\ inc.from # w.dayOff
        /\ inc.day = w.dayOff =>
             /\ w.type = "FT"
             /\ w.shiftStart \in 20..23
             /\ inc.from = (w.dayOff + 6) % 7
             /\ inc.hour < w.shiftStart

\* an overnight FT worker is delivered whose wrapped hours land on its day off
C2_Witness ==
  /\ OptimalDelivered
  /\ \E i \in typesOut({"FT"}) :
       /\ workersOut[i].shiftStart >= 20
       /\ \E inc \in Range(incrementsOf(workersOut[i])) :
            /\ inc.day = workersOut[i].dayOff
            /\ payloadOut.coverage[inc.day][inc.hour] >= 1

\* --- C3 --------------------------------------------------------------------
\* C3 (weekend discipline): every coverage increment made for an emitted WFT
\* or WPT worker lands on day 5 or day 6, never on day 0 through a wrap, and
\* this is so for every start hour admitted for those types.
C3_WeekendDiscipline ==
  /\ OptimalDelivered =>
       \A i \in typesOut({"WFT", "WPT"}) :
         \A inc \in Range(incrementsOf(workersOut[i])) : inc.day \in {5, 6}
  /\ pc = "idle" =>
       /\ \A s \in Range(WFT_STARTS) :
            \A inc \in Range(incrementsOf(workerSlot(1, varWFT(s)))) :
              inc.day \in {5, 6}
       /\ \A s \in Range(PT_STARTS) :
            \A inc \in Range(incrementsOf(workerSlot(1, varWPT(s)))) :
              inc.day \in {5, 6}

\* a weekend worker is delivered and counted on Sunday
C3_Witness ==
  /\ OptimalDelivered
  /\ typesOut({"WFT", "WPT"}) # {}
  /\ payloadOut.coverage[6][23] >= 1


\* --- C4 --------------------------------------------------------------------
\* C4 (mix caps): in every optimal result with N = totalWorkers, if
\* 0 < round(partTimerCapPct) < 100 then ptCount + wptCount <=
\* ceil(capPt * N / 100), and if 0 < round(weekenderCapPct) < 100 then
\* wftCount + wptCount <= ceil(capWk * N / 100), whether the roster is built
\* from the phase-2 assignment or from the phase-1 assignment.
C4_MixCaps ==
  OptimalDelivered =>
    LET N == payloadOut.totalWorkers
        pt == payloadOut.ptCount + payloadOut.wptCount
        wk == payloadOut.wftCount + payloadOut.wptCount
    IN /\ (0 < capPt /\ capPt < 100) =>
            \E bound \in 0..N :
              /\ bound * 100 >= capPt * N
              /\ (bound - 1) * 100 < capPt * N
              /\ pt <= bound
       /\ (0 < capWk /\ capWk < 100) =>
            \E bound \in 0..N :
              /\ bound * 100 >= capWk * N
              /\ (bound - 1) * 100 < capWk * N
              /\ wk <= bound

\* two workers delivered from the phase-2 assignment under caps of 50% each,
\* one of them a part-timer and one a weekender: both caps are met exactly
C4_Witness ==
  /\ OptimalDelivered
  /\ result # r1
  /\ capPt = 50 /\ capWk = 50
  /\ payloadOut.totalWorkers = 2
  /\ payloadOut.ptCount + payloadOut.wptCount = 1
  /\ payloadOut.wftCount + payloadOut.wptCount = 1

C6_ShiftLegality ==
  OptimalDelivered =>
    \A i \in 1..Len(workersOut) :
      LET w == workersOut[i] IN
      /\ w.type = "FT" =>
           /\ w.shiftStart \in (5..15) \cup (20..23)
           /\ w.shiftEnd = w.shiftStart + 9
           /\ w.shiftEnd \in (14..24) \cup (29..32)
      /\ w.type \in {"PT", "WPT"} =>
           /\ w.shiftStart \in 5..20
           /\ w.shiftEnd = w.shiftStart + 4
           /\ w.shiftEnd \in 9..24
      /\ w.type = "WFT" =>
           /\ w.shiftStart \in 5..15
           /\ w.shiftEnd = w.shiftStart + 9
           /\ w.shiftEnd \in 14..24
      /\ w.type \in {"FT", "PT"} =>
           /\ w.dayOff \in 0..6
           /\ ~input.config.allowWeekendDayOff => w.dayOff \in 0..4

\* an overnight FT worker with a weekday off is delivered while weekend days
\* off are not allowed
C6_Witness ==
  /\ OptimalDelivered
  /\ ~input.config.allowWeekendDayOff
  /\ \E i \in typesOut({"FT"}) :
       /\ workersOut[i].shiftEnd \in 29..32
       /\ workersOut[i].dayOff \in 0..4

\* --- C7 --------------------------------------------------------------------
\* C7 (id uniqueness and totals): in every result the worker ids are 1..N in
\* list order, N = totalWorkers, the four counts sum to N and each equals the
\* number of records of its type, whatever primal map the solver returned: a
\* template with primal value x yields round(x) workers, none when that is
\* negative.
C7_IdsAndTotals ==
  Delivered =>
    LET N == Len(workersOut)
        hired(v) == Cardinality({i \in 1..N :
                      /\ workersOut[i].type = v.type
                      /\ workersOut[i].shiftStart = v.s
                      /\ workersOut[i].dayOff = v.p})
    IN /\ \A i \in 1..N : workersOut[i].id = i
       /\ payloadOut.totalWorkers = N
       /\ payloadOut.ftCount + payloadOut.ptCount
            + payloadOut.wftCount + payloadOut.wptCount = N
       /\ payloadOut.ftCount = Cardinality(typesOut({"FT"}))
       /\ payloadOut.ptCount = Cardinality(typesOut({"PT"}))
       /\ payloadOut.wftCount = Cardinality(typesOut({"WFT"}))
       /\ payloadOut.wptCount = Cardinality(typesOut({"WPT"}))
       /\ payloadOut.status = "optimal" =>
            \A v \in DOMAIN result.Columns :
              LET x == result.Columns[v]
                  c == hired(v)
              IN \/ c = 0 /\ x < 5
                 \/ c > 0 /\ 10 * c - 5 <= x /\ x < 10 * c + 5

\* a roster of one worker is delivered from a primal value of 0.5
C7_Witness ==
  /\ OptimalDelivered
  /\ payloadOut.totalWorkers = 1
  /\ \E v \in DOMAIN result.Columns : result.Columns[v] = 5


\* --- C8 --------------------------------------------------------------------
\* every variable that appears in lp: objective, rows, Bounds, General
variablesOf(lp) ==
  Range(lp.obj) \cup Range(lp.bounds) \cup Range(lp.generals)
  \cup UNION {{lp.rows[r].terms[i][2] : i \in 1..Len(lp.rows[r].terms)}
              : r \in 1..Len(lp.rows)}

\* a row that fixes one variable: a single term bounded above by 0
fixingRows(lp) ==
  {r \in 1..Len(lp.rows) :
     /\ Len(lp.rows[r].terms) = 1
     /\ lp.rows[r].sense = "<="
     /\ lp.rows[r].rhs = 0}

\* the model handed to the solver in the current state
modelAtSolver == IF pc = "phase1" THEN lp1 ELSE lp2

\* C8 (cap-zero exclusion): when round(partTimerCapPct) = 0 no PT and no WPT
\* variable appears anywhere in a model handed to the solver and the result
\* has ptCount = wptCount = 0; when round(weekenderCapPct) = 0 the same holds
\* for WFT and WPT; in neither case is a row emitted that fixes a single
\* variable.
C8_CapZeroExclusion ==
  /\ pc \in {"phase1", "phase2"} =>
       /\ capPt = 0 =>
            \A v \in variablesOf(modelAtSolver) : v.type \notin {"PT", "WPT"}
       /\ capWk = 0 =>
            \A v \in variablesOf(modelAtSolver) : v.type \notin {"WFT", "WPT"}
       /\ (capPt = 0 \/ capWk = 0) => fixingRows(modelAtSolver) = {}
  /\ Delivered =>
       /\ capPt = 0 => payloadOut.ptCount = 0 /\ payloadOut.wptCount = 0
       /\ capWk = 0 => payloadOut.wftCount = 0 /\ payloadOut.wptCount = 0

\* a roster is delivered for demand on Sunday 23:00, which part-timers and
\* weekenders could serve, under a part-timer cap of 0.4% (rounded to 0) and a
\* weekender cap of 0
C8_Witness ==
  /\ OptimalDelivered
  /\ input.config.partTimerCapPct = 4
  /\ input.config.weekenderCapPct = 0
  /\ input.oph[6][23] > 0
  /\ payloadOut.totalWorkers >= 1
  /\ payloadOut.ftCount = payloadOut.totalWorkers

\* --- C9 --------------------------------------------------------------------
\* C9 (phase-1 failure): when the phase-1 solve returns a status other than
\* Optimal the engine posts one terminal result with status infeasible if the
\* solver status is Infeasible and error otherwise, with no workers, all
\* counts 0, all-zero 7x24 coverage and required matrices and an errorMessage
\* naming phase 1; phase 2 is not invoked and no roster is built.
C9_Phase1Failure ==
  (pc = "done" /\ r1.Status \notin {"Optimal", "none"}) =>
    /\ Delivered
    /\ Cardinality({i \in 1..Len(posted) : posted[i].type = "result"}) = 1
    /\ payloadOut.status =
         (IF r1.Status = "Infeasible" THEN "infeasible" ELSE "error")
    /\ payloadOut.workers = <<>>
    /\ payloadOut.totalWorkers = 0
    /\ payloadOut.ftCount = 0 /\ payloadOut.ptCount = 0
    /\ payloadOut.wftCount = 0 /\ payloadOut.wptCount = 0
    /\ DOMAIN payloadOut.coverage = 0..6
    /\ DOMAIN payloadOut.required = 0..6
    /\ \A d \in 0..6 :
         /\ DOMAIN payloadOut.coverage[d] = 0..23
         /\ DOMAIN payloadOut.required[d] = 0..23
         /\ \A h \in 0..23 :
              payloadOut.coverage[d][h] = 0 /\ payloadOut.required[d][h] = 0
    /\ payloadOut.errorMessage = <<"Phase 1 solver status: ", r1.Status>>
    /\ solves = << <<1, 1>> >>
    /\ lp2 = NoLP
    /\ \A i \in 1..Len(posted) :
         posted[i].type = "progress" =>
           posted[i].message \in {"Loading HiGHS solver", "Phase 1"}

\* the phase-1 solve ended on the solver's time limit, with demand to serve
C9_Witness ==
  /\ pc = "done"
  /\ r1.Status = "Time limit reached"
  /\ input.oph[6][23] > 0
  /\ payloadOut.status = "error"

\* --- C10 -------------------------------------------------------------------
\* the request ended without any solver result: loading the solver or the
\* phase-1 solve threw
Crashed == pc = "done" /\ r1 = NoResult /\ result = NoResult

\* C10 as stated (solver crash in phase 1): when loading the solver or the
\* phase-1 solve throws, the terminal outcome is a roster result with status
\* error, structured like the infeasible case (no workers, zero matrices),
\* whose errorMessage carries the diagnostic text.
C10_Original ==
  Crashed =>
    /\ lastPosted.type = "result"
    /\ lastPosted.payload.status = "error"
    /\ lastPosted.payload.workers = <<>>
    /\ lastPosted.payload.coverage = zeroMatrix
    /\ lastPosted.payload.required = zeroMatrix
    /\ lastPosted.payload.errorMessage \in Diagnostics

\* C10 (solver crash in phase 1, amended): when loading the solver or the
\* phase-1 solve throws, the terminal outcome is one message of type error
\* that carries the diagnostic text; no result is posted, phase 2 is not
\* started and no roster is built.
C10_CrashPostsError ==
  Crashed =>
    /\ Len(posted) >= 2
    /\ \E message \in Diagnostics :
         lastPosted = [type |-> "error", message |-> message]
    /\ \A i \in 1..(Len(posted) - 1) :
         /\ posted[i].type = "progress"
         /\ posted[i].message \in {"Loading HiGHS solver", "Phase 1"}
    /\ Len(solves) <= 1
    /\ lp2 = NoLP

\* the phase-1 solve was called and threw
C10_Witness ==
  /\ Crashed
  /\ solves = << <<1, 1>> >>
  /\ lastPosted = [type |-> "error", message |-> "memory access out of bounds"]

\* --- C11 -------------------------------------------------------------------
\* a step in which phase 2 fails: the second instance cannot be created or
\* the model cannot be built, the solver throws, or it reports a status other
\* than Optimal
Phase2Fails == LoadSolver2Throws \/ SolvePhase2NotOptimal \/ SolvePhase2Throws

\* C11 (phase-2 fallback): phase 2 is attempted only after phase 1 returned
\* Optimal; every step in which phase 2 fails leaves the phase-1 result as
\* the one the roster is built from and goes on to build the roster; the
\* result changes in phase 2 only to an Optimal result of the phase-2 solve;
\* and the run then ends in a result with status optimal whose roster is the
\* one built from that assignment.
C11_Phase2Fallback ==
  /\ [][Phase2Fails =>
          /\ r1.Status = "Optimal"
          /\ result = r1 /\ result' = r1 /\ r1' = r1
          /\ pc' = "roster"]_vars
  /\ [][(pc \in {"loading2", "phase2"} /\ result' # result) =>
          /\ pc = "phase2"
          /\ solves' = Append(solves, <<2, 2>>)
          /\ result'.Status = "Optimal"
          /\ DOMAIN result'.Columns = Range(lp2.generals)]_vars
  /\ [][(pc = "roster" /\ pc' # pc) =>
          /\ result' = result
          /\ pc' = "done"
          /\ posted'[Len(posted')].type = "result"
          /\ posted'[Len(posted')].payload = resultPayload(result, input)
          /\ posted'[Len(posted')].payload.status = "optimal"]_vars

\* witness: the phase-2 solve was called and failed, and the delivered optimal
\* roster of one worker is the one built from the phase-1 assignment
C11_Witness ==
  /\ OptimalDelivered
  /\ solves = << <<1, 1>>, <<2, 2>> >>
  /\ r1.Status = "Optimal" /\ result = r1
  /\ payloadOut.totalWorkers = 1
  /\ payloadOut.workers
       = buildRoster(r1.Columns, input.oph, DAY_OFF_DAYS(input.config)).workers

\* --- C12 -------------------------------------------------------------------
\* the payloads of the result messages posted so far
resultsPosted ==
  {posted[i].payload : i \in {j \in 1..Len(posted) : posted[j].type = "result"}}

\* C12 (errorMessage exactly on failure): every result the worker posts has
\* status optimal, infeasible or error, and it has an errorMessage field
\* exactly when its status is not optimal.
C12_ErrorMessageIffNotOptimal ==
  \A res \in resultsPosted :
    /\ res.status \in {"optimal", "infeasible", "error"}
    /\ ("errorMessage" \in DOMAIN res) <=> (res.status # "optimal")

\* witness: a result with status error was delivered, and it carries the
\* solver status as its errorMessage
C12_Witness ==
  /\ Delivered
  /\ payloadOut.status = "error"
  /\ "errorMessage" \in DOMAIN payloadOut
  /\ payloadOut.errorMessage = <<"Phase 1 solver status: ", "Time limit reached">>

\* --- C13 -------------------------------------------------------------------
\* the stages of a solve request, in the order of the handler's statements
Stages == <<"Loading HiGHS solver", "Phase 1", "Phase 2", "Building roster">>

stageOf(m) == CHOOSE k \in 1..Len(Stages) : Stages[k] = m.message

progressAt == {i \in 1..Len(posted) : posted[i].type = "progress"}

\* C13 (progress ordering): at every moment of a solve request the progress
\* messages posted so far are in strictly increasing stage order (so each
\* appears at most once), the first is the solver loading and Phase 2 and
\* Building roster come after Phase 1, Building roster is posted only when
\* phase 1 returned Optimal, a result or error message is the last message
\* posted, and a finished request ends with one.
C13_ProgressOrdering ==
  /\ \A i \in progressAt : posted[i].message \in Range(Stages)
  /\ \A i, j \in progressAt :
       i < j => stageOf(posted[i]) < stageOf(posted[j])
  /\ \A i \in progressAt :
       /\ (i = 1) <=> (stageOf(posted[i]) = 1)
       /\ stageOf(posted[i]) > 2 => stageOf(posted[2]) = 2
       /\ stageOf(posted[i]) = 4 =>
            /\ <<1, 1>> \in Range(solves)
            /\ result.Status = "Optimal"
  /\ \A i \in 1..Len(posted) :
       posted[i].type # "progress" =>
         /\ posted[i].type \in {"result", "error"}
         /\ i = Len(posted)
         /\ pc = "done"
  /\ pc = "done" => (Len(posted) > 0 /\ lastPosted.type # "progress")

\* witness: a run through all four stages, in order, ended by its result
C13_Witness ==
  /\ pc = "done"
  /\ Len(posted) = 5
  /\ \A k \in 1..4 : posted[k].type = "progress" /\ posted[k].message = Stages[k]
  /\ posted[5].type = "result" /\ posted[5].payload.status = "optimal"

\* --- C14 -------------------------------------------------------------------
\* both runs on the request have delivered a result
BothDelivered == Delivered /\ earlier # NoRun

\* C14 as stated: two runs on the same demand and config, each with a solver
\* returning any optimal assignment, deliver the same totalWorkers and the
\* same coverage matrix.
C14_Original ==
  BothDelivered =>
    /\ payloadOut.totalWorkers = earlier.totalWorkers
    /\ payloadOut.coverage = earlier.coverage

\* C14 (run-to-run determinism of the headcount): two runs on the same demand
\* and config, each with a solver returning any optimal assignment and with
\* phase 2 free to succeed or to fall back, deliver the same status, the same
\* totalWorkers and the same required matrix.
C14_SameHeadcount ==
  BothDelivered =>
    /\ payloadOut.status = earlier.status
    /\ payloadOut.totalWorkers = earlier.totalWorkers
    /\ payloadOut.required = earlier.required

\* witness: two runs delivered one worker each, this one with the phase-2
\* assignment, and their coverage matrices differ
C14_Witness ==
  /\ BothDelivered
  /\ payloadOut.status = "optimal"
  /\ payloadOut.totalWorkers = 1 /\ earlier.totalWorkers = 1
  /\ solves = << <<1, 1>>, <<2, 2>> >>
  /\ r1 = NoResult
  /\ payloadOut.coverage # earlier.coverage

\* --- C15 -------------------------------------------------------------------
\* the rows of lp that have no term: buildLP writes them as " c1:  -  <= 0"
termlessRows(lp) == {r \in 1..Len(lp.rows) : lp.rows[r].terms = <<>>}

\* C15 as stated (S1, zero demand): for the all-zero demand matrix with the
\* default configuration the result the engine returns has status optimal,
\* totalWorkers = 0, no workers, all-zero coverage and all-zero required.
C15_Original ==
  (input = ZeroDemand /\ Delivered) =>
    /\ payloadOut.status = "optimal"
    /\ payloadOut.totalWorkers = 0
    /\ payloadOut.workers = <<>>
    /\ payloadOut.coverage = zeroMatrix
    /\ payloadOut.required = zeroMatrix

\* the failing run: for zero demand the phase-1 model has no variable, an
\* empty objective and two cap rows without terms; the solver does not report
\* Optimal for it, and the request ends with status error
C15_ZeroDemandFails ==
  /\ input = ZeroDemand
  /\ Delivered
  /\ solves = << <<1, 1>> >>
  /\ lp1.generals = <<>> /\ lp1.obj = <<>>
  /\ Cardinality(termlessRows(lp1)) = 2
  /\ payloadOut.status = "error"

\* --- C16 -------------------------------------------------------------------
\* an optimal result was delivered for the request `in`, built from an
\* integer assignment that satisfies the model it was solved for
SolvedFor(in) ==
  /\ input = in
  /\ OptimalDelivered
  /\ satisfiesModel(usedModel, result.Columns)

\* C16 as stated (S2, single-hour spike): for 12 orders on Monday 10:00 and
\* the default configuration the result has one worker, of type PT, with
\* shiftStart <= 10 <= shiftStart + 3, and C[0][10] >= 1.
C16_Original ==
  SolvedFor(MondaySpike) =>
    /\ payloadOut.totalWorkers = 1
    /\ workersOut[1].type = "PT"
    /\ workersOut[1].shiftStart <= 10 /\ 10 <= workersOut[1].shiftStart + 3
    /\ payloadOut.coverage[0][10] >= 1

\* C16 (S2, single-hour spike): for 12 orders on Monday 10:00 and the default
\* configuration (part-timer cap 40) the result has one worker, and that
\* worker is of type FT, with shiftStart <= 10 <= shiftStart + 8 and a day
\* off other than Monday, and C[0][10] = 1: with a headcount of one the
\* part-timer cap row 60 PT - 40 FT <= 0 excludes a lone part-timer.
C16_SpikeIsFullTime ==
  SolvedFor(MondaySpike) =>
    /\ payloadOut.totalWorkers = 1
    /\ payloadOut.ftCount = 1 /\ payloadOut.ptCount = 0
    /\ workersOut[1].type = "FT"
    /\ workersOut[1].shiftStart <= 10 /\ 10 <= workersOut[1].shiftStart + 8
    /\ workersOut[1].dayOff # 0
    /\ payloadOut.coverage[0][10] = 1
    /\ \E r \in 1..Len(lp1.rows) :
         /\ lp1.rows[r].kind = "ptcap"
         /\ \E t \in Range(lp1.rows[r].terms) : t[1] = 60 /\ t[2].type = "PT"
         /\ \E t \in Range(lp1.rows[r].terms) : t[1] = -40 /\ t[2].type = "FT"

\* witness: phase 2 ran and returned Optimal, and the one worker delivered for
\* the Monday spike is a full-timer starting at 10:00
C16_Witness ==
  /\ SolvedFor(MondaySpike)
  /\ solves = << <<1, 1>>, <<2, 2>> >>
  /\ r1 = NoResult
  /\ Len(workersOut) = 1
  /\ workersOut[1].type = "FT" /\ workersOut[1].shiftStart = 10

\* --- C17 -------------------------------------------------------------------
NoWeekendDemand == \A d \in {5, 6}, h \in 0..23 : input.oph[d][h] = 0

\* C17 (no weekend demand implies no weekenders): when the Saturday and
\* Sunday rows of the demand are all zero, buildLP declares no WFT and no WPT
\* variable under any configuration, and every result with status optimal has
\* wftCount = wptCount = 0 and no worker of type WFT or WPT.
C17_NoWeekendDemandNoWeekenders ==
  NoWeekendDemand =>
    /\ pc = "idle" =>
         \A c \in Configs \cup {DefaultConfig, WeekenderConfig} :
           /\ wftVarsOf(input.oph, c) = <<>>
           /\ wptStartsOf(input.oph, c) = <<>>
    /\ OptimalDelivered =>
         /\ payloadOut.wftCount = 0 /\ payloadOut.wptCount = 0
         /\ typesOut({"WFT", "WPT"}) = {}
         /\ \A v \in DOMAIN result.Columns : v.type \in {"FT", "PT"}

\* witness: weekenders are allowed (cap 30), the demand is on Monday only,
\* and the delivered roster has one worker, not a weekender
C17_Witness ==
  /\ NoWeekendDemand
  /\ OptimalDelivered
  /\ useWFT(input.config) /\ useWPT(input.config)
  /\ payloadOut.totalWorkers = 1
  /\ payloadOut.wftCount = 0 /\ payloadOut.wptCount = 0

\* --- C18 -------------------------------------------------------------------
\* every template of each type, before pruning
allFT == ftTemplates(ALL_DAYS)
allPT == ptTemplates(ALL_DAYS)
allWFT == [i \in 1..Len(WFT_STARTS) |-> varWFT(WFT_STARTS[i])]
allWPT == [i \in 1..Len(PT_STARTS) |-> varWPT(PT_STARTS[i])]

\* the templates whose variable has a term in the coverage row of (d, h)
rowTemplates(oph, d, h) ==
  {t[2] : t \in Range(coverageTerms(oph, d, h, allFT, allPT, allWFT, allWPT))}

\* C18 (S5, overnight demand): for 12 orders on Monday 02:00 every optimal
\* result has an FT worker with shiftStart in 20..23 and dayOff other than
\* Sunday whose productive hours include 02:00, and C[0][2] >= 1. More
\* generally the coverage row of a cell at hour h in 0..4 of day d has terms
\* exactly for the FT templates with start in 20..23 and day off other than
\* (d - 1) mod 7, and in every delivered roster a coverage increment in hours
\* 0..4 is made only for such an FT worker.
C18_OvernightDemand ==
  /\ (input = MondayNight /\ pc = "idle") =>
       \A d \in 0..6, h \in 0..4 :
         rowTemplates(input.oph, d, h)
           = {varFT(st, p) : st \in 20..23, p \in (0..6) \ {(d + 6) % 7}}
  /\ SolvedFor(MondayNight) =>
       /\ \E i \in 1..Len(workersOut) :
            /\ workersOut[i].type = "FT"
            /\ workersOut[i].shiftStart \in 20..23
            /\ workersOut[i].dayOff # 6
            /\ Includes(workersOut[i].productiveHours, 2)
       /\ payloadOut.coverage[0][2] >= 1
  /\ OptimalDelivered =>
       \A i \in 1..Len(workersOut) :
         \A inc \in Range(incrementsOf(workersOut[i])) :
           inc.hour <= 4 =>
             /\ workersOut[i].type = "FT"
             /\ workersOut[i].shiftStart \in 20..23
             /\ inc.day = (inc.from + 1) % 7
             /\ workersOut[i].dayOff # inc.from

\* witness: the Monday 02:00 demand is covered by one FT worker who starts at
\* 23:00 on Sunday and whose day off is Monday
C18_Witness ==
  /\ SolvedFor(MondayNight)
  /\ Len(workersOut) = 1
  /\ workersOut[1].type = "FT" /\ workersOut[1].shiftStart = 23
  /\ workersOut[1].dayOff = 0
  /\ payloadOut.coverage[0][2] = 1

\* --- C19 -------------------------------------------------------------------
\* C19 as stated (S6, weekender forced): for 60 orders on Saturday 10:00 and
\* on Sunday 10:00 with part-timer cap 0 and weekender cap 100, every optimal
\* result hires WFT workers, has no PT or WPT worker, and has C[5][10] >= 5
\* and C[6][10] >= 5.
C19_Original ==
  SolvedFor(WeekendPeak) =>
    /\ payloadOut.wftCount >= 1
    /\ payloadOut.ptCount = 0 /\ payloadOut.wptCount = 0
    /\ payloadOut.coverage[5][10] >= 5
    /\ payloadOut.coverage[6][10] >= 5

\* C19 (S6, weekend peak): for 60 orders on Saturday 10:00 and on Sunday
\* 10:00 with part-timer cap 0 and weekender cap 100, every optimal result
\* has five workers, each of type FT (with a weekday off) or WFT and with
\* shiftStart <= 10 <= shiftStart + 8, has no PT or WPT worker, and has
\* C[5][10] = 5 and C[6][10] = 5; phase 2 does not run. Weekenders need not
\* be hired.
C19_WeekendPeak ==
  SolvedFor(WeekendPeak) =>
    /\ payloadOut.totalWorkers = 5
    /\ payloadOut.ftCount + payloadOut.wftCount = 5
    /\ payloadOut.ptCount = 0 /\ payloadOut.wptCount = 0
    /\ \A i \in 1..Len(workersOut) :
         /\ workersOut[i].type \in {"FT", "WFT"}
         /\ workersOut[i].shiftStart <= 10 /\ 10 <= workersOut[i].shiftStart + 8
         /\ workersOut[i].type = "FT" => workersOut[i].dayOff \in 0..4
    /\ payloadOut.coverage[5][10] = 5
    /\ payloadOut.coverage[6][10] = 5
    /\ solves = << <<1, 1>> >>

\* witness: the weekend peak is covered by five FT workers and no weekender
C19_Witness ==
  /\ SolvedFor(WeekendPeak)
  /\ payloadOut.ftCount = 5 /\ payloadOut.wftCount = 0
  /\ payloadOut.coverage[5][10] = 5 /\ payloadOut.coverage[6][10] = 5

\* --- C20 -------------------------------------------------------------------
\* every admissible template, and the cells buildRoster increments for a
\* worker of each
allTemplates == allFT \o allPT \o allWFT \o allWPT

cellsOf(incs) == {<<incs[k].day, incs[k].hour>> : k \in 1..Len(incs)}

\* the increments of worker w by the rule on raw hours: a raw hour of 24 or
\* more belongs to the day after the shift day
rawIncrementsOf(w) ==
  LET days == activeDays(w)
      raw == IF w.type \in {"FT", "WFT"} THEN raw9(w.shiftStart)
                                         ELSE ptHours(w.shiftStart)
  IN SubSeq([i \in 1..(Len(days) * Len(raw)) |->
               LET d == days[((i - 1) \div Len(raw)) + 1]
                   rh == raw[((i - 1) % Len(raw)) + 1]
               IN [from |-> d,
                   day |-> IF rh >= 24 THEN (d + 1) % 7 ELSE d,
                   hour |-> rh % 24]],
            1, Len(days) * Len(raw))

\* C rebuilt from the workers with the rule on raw hours
rebuiltCoverage(workers) ==
  LET incs == Flatten([i \in 1..Len(workers) |-> rawIncrementsOf(workers[i])])
  IN applyIncrements(zeroMatrix, incs, 1, Len(incs))

\* C20 (model/roster attribution agreement): for every admissible template T
\* and every cell (d, h), T's variable has a term in the coverage row of
\* (d, h), pruning and the demand filter set aside, exactly when buildRoster
\* increments C[d][h] for a worker of template T; the rule on stored hours
\* (h < shiftStart means next day) attributes every hour of every admissible
\* shift to the same cell as the rule on raw hours (raw >= 24 means next
\* day); and in every delivered roster the coverage rebuilt from the workers
\* is the reported coverage.
C20_AttributionAgreement ==
  /\ (input = WeekendPeak /\ pc = "idle") =>
       LET n == Len(allTemplates)
           slots == SubSeq([i \in 1..n |-> workerSlot(1, allTemplates[i])], 1, n)
           cells == SubSeq([i \in 1..n |-> cellsOf(incrementsOf(slots[i]))], 1, n)
       IN /\ \A d \in 0..6, h \in 0..23 :
               rowTemplates(input.oph, d, h)
                 = {allTemplates[i] : i \in {k \in 1..n : <<d, h>> \in cells[k]}}
          /\ \A i \in 1..n :
               incrementsOf(slots[i]) = rawIncrementsOf(slots[i])
  /\ OptimalDelivered =>
       /\ payloadOut.coverage = rebuiltCoverage(workersOut)
       /\ payloadOut.coverage = coverageOf(workersOut)

\* witness: a delivered roster with an overnight worker whose wrapped hours
\* are counted on the next day, and whose rebuilt coverage is the reported one
C20_Witness ==
  /\ OptimalDelivered
  /\ Len(workersOut) = 2
  /\ workersOut[1].type = "FT" /\ workersOut[1].shiftStart = 22
  /\ workersOut[2].type = "PT"
  /\ payloadOut.coverage[0][3] = 1 /\ payloadOut.coverage[6][3] = 1
  /\ payloadOut.coverage = rebuiltCoverage(workersOut)

\* --- C21 -------------------------------------------------------------------
\* the cells with positive demand
positiveCells(oph) == {c \in (0..6) \X (0..23) : oph[c[1]][c[2]] > 0}

\* the templates of the types the configuration enables
enabledTemplates(config) ==
  Range(ftTemplates(DAY_OFF_DAYS(config)))
    \cup (IF usePT(config) THEN Range(ptTemplates(DAY_OFF_DAYS(config))) ELSE {})
    \cup (IF useWFT(config) THEN Range(allWFT) ELSE {})
    \cup (IF useWPT(config) THEN Range(allWPT) ELSE {})

\* the variables with a term in some coverage row of lp
coveringVariables(lp) ==
  UNION {{t[2] : t \in Range(lp.rows[r].terms)}
           : r \in {q \in 1..Len(lp.rows) : lp.rows[q].kind = "coverage"}}

\* C21 (pruner exactness): in the model built for a request, the declared
\* variables are templates of enabled types, every declared variable has a
\* term in at least one emitted coverage row, and a template of an enabled
\* type is declared exactly when it covers a cell with positive demand (its
\* variable would have a term in that cell's row).
C21_PrunerExactness ==
  pc = "phase1" =>
    /\ Range(lp1.generals) \subseteq enabledTemplates(input.config)
    /\ Range(lp1.generals) = coveringVariables(lp1)
    /\ LET covering == UNION {rowTemplates(input.oph, c[1], c[2])
                                : c \in positiveCells(input.oph)}
       IN \A T \in enabledTemplates(input.config) :
            (T \in Range(lp1.generals)) <=> (T \in covering)

\* witness: a model built with weekend days off allowed in which some
\* part-time templates are kept and others of the same start hour are pruned
C21_Witness ==
  /\ pc = "phase1"
  /\ input.config.allowWeekendDayOff
  /\ \E T \in Range(lp1.generals) : T.type = "PT"
  /\ \E T \in enabledTemplates(input.config) \ Range(lp1.generals) :
       T.type = "PT" /\ T.s = 20

\* --- C22 -------------------------------------------------------------------
\* the solver calls made for phase 2
phase2Calls == {k \in 1..Len(solves) : solves[k][2] = 2}

\* the right-hand sides of the headcount rows of lp
headcountCaps(lp) ==
  {lp.rows[r].rhs : r \in {q \in 1..Len(lp.rows) : lp.rows[q].kind = "total"}}

\* C22 (phase sequencing): the solver is called for phase 2 at most once per
\* request, only after the phase-1 call, which returned Optimal, only when
\* round(partTimerCapPct) > 0, and on another instance than the phase-1
\* call; the phase-2 model is the one built with the cap
\* N* = round(sum of the phase-1 primal values).
C22_PhaseSequencing ==
  /\ [](/\ Cardinality(phase2Calls) <= 1
        /\ \A k \in phase2Calls :
             /\ k = 2
             /\ solves[1][2] = 1
             /\ solves[1][1] # solves[k][1]
             /\ result.Status = "Optimal"
             /\ MathRound(input.config.partTimerCapPct) > 0
        /\ pc \in {"loading2", "phase2"} =>
             /\ MathRound(input.config.partTimerCapPct) > 0
             /\ r1.Status = "Optimal"
             /\ nOpt = MathRound(sumPrimals(r1.Columns))
             /\ solves = << <<1, 1>> >>)
  /\ [][(pc = "loading2" /\ pc' = "phase2") =>
          lp2' = buildLP(input, 2, MathRound(sumPrimals(r1.Columns)))]_vars
  /\ [][(pc = "phase1" /\ pc' = "loading2") =>
          /\ r1'.Status = "Optimal"
          /\ nOpt' = MathRound(sumPrimals(r1'.Columns))]_vars
  /\ [][solves' # solves =>
          \/ pc = "phase1" /\ solves' = Append(solves, <<1, 1>>)
          \/ pc = "phase2" /\ solves' = Append(solves, <<2, 2>>)]_vars

\* witness: both phases were solved, phase 1 found two workers and the
\* phase-2 model caps the headcount at two
C22_Witness ==
  /\ solves = << <<1, 1>>, <<2, 2>> >>
  /\ nOpt = 2
  /\ headcountCaps(lp2) = {2}
  /\ pc = "roster"

\* --- C23 -------------------------------------------------------------------
\* phase 1 returned Optimal with an assignment of non-negative integers
Phase1Integer ==
  /\ pc \in {"loading2", "phase2", "roster"}
  /\ r1.Status = "Optimal"
  /\ IsIntegerAssignment(r1.Columns)

\* C23 (headcount fixed by phase 1): once phase 1 has returned an optimal
\* integer assignment, N* is the number of workers of that assignment, and
\* every optimal result delivered afterwards from an integer assignment,
\* whether the phase-2 assignment or the phase-1 fallback, has
\* totalWorkers = N*.
C23_HeadcountFixedByPhase1 ==
  [](Phase1Integer =>
       /\ Tenths(nOpt) = sumPrimals(r1.Columns)
       /\ []((OptimalDelivered /\ IsIntegerAssignment(result.Columns))
               => payloadOut.totalWorkers = nOpt))

\* witness: a roster of two workers is delivered from the phase-2 assignment,
\* which moved a worker to part time, and N* is two
C23_Witness ==
  /\ OptimalDelivered
  /\ solves = << <<1, 1>>, <<2, 2>> >>
  /\ usedModel = lp2
  /\ IsIntegerAssignment(result.Columns)
  /\ nOpt = 2
  /\ payloadOut.totalWorkers = 2
  /\ payloadOut.ptCount + payloadOut.wptCount > 0

\* --- C25 -------------------------------------------------------------------
\* the headcount rows of lp
headcountRows(lp) == SelectSeq(lp.rows, LAMBDA row : row.kind = "total")

\* seq lists every element of S exactly once
ListsOnce(seq, S) ==
  /\ Range(seq) = S
  /\ Len(seq) = Cardinality(S)

\* the phase-1 model has no headcount row and its objective lists every
\* declared variable exactly once; the objective of the phase-2 model lists
\* exactly the declared FT and WFT variables, each once
objectiveShapes ==
  /\ lp1 # NoLP =>
       /\ headcountRows(lp1) = <<>>
       /\ ListsOnce(lp1.obj, Range(lp1.generals))
  /\ lp2 # NoLP =>
       ListsOnce(lp2.obj, {v \in Range(lp2.generals) : v.type \in {"FT", "WFT"}})

\* C25 as stated (phase-2 model shape): every phase-2 model contains exactly
\* one headcount row "sum of all active variables <= N*" and its objective
\* contains exactly the active FT and WFT variables with coefficient 1, while
\* every phase-1 model contains no headcount row and its objective contains
\* every active variable exactly once.
C25_Original ==
  /\ objectiveShapes
  /\ lp2 # NoLP =>
       /\ Len(headcountRows(lp2)) = 1
       /\ LET row == headcountRows(lp2)[1]
          IN /\ ListsOnce([i \in 1..Len(row.terms) |-> row.terms[i][2]],
                          Range(lp2.generals))
             /\ \A i \in 1..Len(row.terms) : row.terms[i][1] = 1
             /\ row.sense = "<=" /\ row.rhs = nOpt /\ row.scale = 1

\* C25 (phase-2 model shape, amended): a phase-2 model built with N* > 0
\* contains exactly one headcount row "sum of all declared variables <= N*";
\* a phase-2 model built with N* <= 0 contains no headcount row. The
\* objective of every phase-2 model lists exactly the declared FT and WFT
\* variables, each once; every phase-1 model has no headcount row and its
\* objective lists every declared variable exactly once.
C25_Phase2ModelShape ==
  /\ objectiveShapes
  /\ lp2 # NoLP =>
       IF nOpt > 0
       THEN /\ Len(headcountRows(lp2)) = 1
            /\ LET row == headcountRows(lp2)[1]
               IN /\ ListsOnce([i \in 1..Len(row.terms) |-> row.terms[i][2]],
                               Range(lp2.generals))
                  /\ \A i \in 1..Len(row.terms) : row.terms[i][1] = 1
                  /\ row.sense = "<=" /\ row.rhs = nOpt /\ row.scale = 1
       ELSE headcountRows(lp2) = <<>>

\* witness: the phase-2 model for zero demand under the default configuration
\* is built with N* = 0 and has no headcount row
C25_Witness ==
  /\ pc = "phase2"
  /\ input = ZeroDemand
  /\ r1.Status = "Optimal"
  /\ nOpt = 0
  /\ headcountRows(lp2) = <<>>

\* --- Model emission on graded and single-cell demand -----------------------
\* demand that rises and falls through the day in steps of 6 orders, shifted
\* from one day to the next, so that 9-hour windows hold distinct values, ties
\* and empty hours, and the row after midnight differs from the row before
profileMatrix(k) ==
  [d \in 0..6 |-> [h \in 0..23 |-> ((h * k + d) % 4) * 6]]

\* the same profile on Monday to Friday only
weekdayProfile(k) ==
  [d \in 0..6 |-> [h \in 0..23 |-> IF d < 5 THEN profileMatrix(k)[d][h] ELSE 0]]

ProfileDemands ==
  {profileMatrix(k) : k \in 1..3} \cup {weekdayProfile(1), zeroMatrix}

\* 12 orders in one cell, for every cell of the week
SingleCellDemands == {cellMatrix({<<d, h>>}, 12) : d \in 0..6, h \in 0..23}

ModelInputs == [oph : ProfileDemands \cup SingleCellDemands, config : Configs]

InitModels ==
  /\ request \in [type : {"solve"}, payload : ModelInputs]
  /\ pc = "idle"
  /\ posted = <<>>
  /\ solves = <<>>
  /\ lp1 = NoLP /\ lp2 = NoLP
  /\ r1 = NoResult /\ result = NoResult
  /\ nOpt = 0
  /\ earlier = NoRun
  /\ client = NewCall

\* the handler up to the emission of the phase-1 model
NextModels == Receive \/ LoadSolver \/ LoadSolverThrows

SpecModels == InitModels /\ [][NextModels]_vars

\* --- C24 -------------------------------------------------------------------
\* demand of the 9 window hours of a shift started at s on shiftDay
windowDemands(oph, s, shiftDay) ==
  [i \in 1..9 |-> oph[(shiftDay + (s + i - 1) \div 24) % 7][(s + i - 1) % 24]]

\* the three window indices no other index beats: higher demand wins, equal
\* demand goes to the smaller index
fullHours(oph, s, shiftDay) ==
  LET dem == windowDemands(oph, s, shiftDay)
  IN CHOOSE T \in SUBSET (1..9) :
       /\ Cardinality(T) = 3
       /\ \A i \in T, j \in (1..9) \ T :
            dem[i] > dem[j] \/ (dem[i] = dem[j] /\ i < j)

\* the declared variables of a type, in declaration order
declared(lp, type) == SelectSeq(lp.generals, LAMBDA v : v.type = type)

\* the terms of the coverage row of cell (d, h) of the model lp
emittedTerms(lp, oph, d, h) ==
  coverageTerms(oph, d, h, declared(lp, "FT"), declared(lp, "PT"),
                declared(lp, "WFT"), declared(lp, "WPT"))

\* C24 (smearing coefficients): for every 9-hour template (FT or WFT) and
\* every shift day, exactly the three window hours with the highest demand
\* (equal demand goes to the smaller window index, hours after midnight read
\* from the next day's row) get coefficient 1 and the other six 5/6, so the
\* window sums to 8; in the emitted coverage rows the FT and WFT terms carry
\* these coefficients and the PT and WPT terms carry 1.
C24_SmearingCoefficients ==
  pc = "phase1" =>
    LET oph == input.oph IN
    /\ \A s \in Range(FT_STARTS) \cup Range(WFT_STARTS), shiftDay \in 0..6 :
         LET coeff == [i \in 1..9 |-> smearedCoeff(oph, s, shiftDay, s + i - 1)]
             full == fullHours(oph, s, shiftDay)
         IN /\ \A i \in 1..9 :
                 coeff[i] = IF i \in full THEN <<1, 1>> ELSE <<5, 6>>
            /\ Cardinality({i \in 1..9 : coeff[i] = <<1, 1>>}) = 3
            /\ SumSeq([i \in 1..9 |-> (coeff[i][1] * 6) \div coeff[i][2]]) = 8 * 6
    /\ \A c \in positiveCells(oph) :
         LET terms == emittedTerms(lp1, oph, c[1], c[2])
         IN \A k \in 1..Len(terms) :
              LET v == terms[k][2]
                  sameDay == c[2] >= v.s
                  shiftDay == IF sameDay THEN c[1] ELSE (c[1] + 6) % 7
                  idx == (IF sameDay THEN c[2] ELSE c[2] + 24) - v.s + 1
              IN terms[k][1] =
                   IF v.type \in {"PT", "WPT"} THEN CoeffScale
                   ELSE IF idx \in fullHours(oph, v.s, shiftDay)
                        THEN CoeffScale ELSE toFixed8(5, 6)

\* witness: the model is emitted for the profile in which a Monday shift
\* starting at 20:00 has its three full hours after midnight, on Tuesday's
\* row, and a shift starting at 05:00 has its full hours decided by a tie
C24_Witness ==
  /\ pc = "phase1"
  /\ input.oph = profileMatrix(1)
  /\ varFT(20, 4) \in Range(lp1.generals)
  /\ fullHours(input.oph, 20, 0) \cap {5, 6, 7, 8, 9} # {}
  /\ smearedCoeff(input.oph, 20, 0, 26) # smearedCoeff_SameDayRow(input.oph, 20, 0, 26)
  /\ \E i, j \in 1..9 :
       /\ i \in fullHours(input.oph, 5, 0)
       /\ j \notin fullHours(input.oph, 5, 0)
       /\ windowDemands(input.oph, 5, 0)[i] = windowDemands(input.oph, 5, 0)[j]

\* --- C26 -------------------------------------------------------------------
\* the cells with positive demand in the order of the coverage loop
positiveCellSeq(oph) ==
  SelectSeq([i \in 1..168 |-> <<(i - 1) \div 24, (i - 1) % 24>>],
            LAMBDA c : oph[c[1]][c[2]] > 0)

coverageRowsOf(lp) == SelectSeq(lp.rows, LAMBDA row : row.kind = "coverage")

\* C26 (no demand cell is dropped): for every demand matrix and every
\* config, each cell with positive demand produces a coverage row of the
\* emitted model: the rows are those of the positive cells, in loop order,
\* none is skipped for want of terms, and each holds a term of a declared FT
\* template.
C26_NoCellDropped ==
  pc = "phase1" =>
    LET cells == positiveCellSeq(input.oph)
        rows == coverageRowsOf(lp1)
    IN /\ Len(rows) = Len(cells)
       /\ \A k \in 1..Len(cells) :
            LET terms == emittedTerms(lp1, input.oph, cells[k][1], cells[k][2])
            IN /\ rows[k].terms = terms
               /\ rows[k].rhs = MathCeilDiv(input.oph[cells[k][1]][cells[k][2]],
                                            input.config.productivityRate)
               /\ \E i \in 1..Len(terms) :
                    /\ terms[i][2].type = "FT"
                    /\ terms[i][2] \in Range(lp1.generals)

\* witness: the only demand is on Monday at 02:00, part-timers and weekenders
\* are excluded, and the model has the row of that cell, covered by the
\* full-timers who started on Sunday evening
C26_Witness ==
  /\ pc = "phase1"
  /\ input.oph = cellMatrix({<<0, 2>>}, 12)
  /\ MathRound(input.config.partTimerCapPct) = 0
  /\ MathRound(input.config.weekenderCapPct) = 0
  /\ Len(coverageRowsOf(lp1)) = 1
  /\ \A v \in Range(lp1.generals) : v.type = "FT" /\ v.s >= 20 /\ v.p # 6

\* --- C27 -------------------------------------------------------------------
\* the variables named in the objective or in a row of lp
referenced(lp) ==
  Range(lp.obj)
    \cup UNION {{lp.rows[r].terms[i][2] : i \in 1..Len(lp.rows[r].terms)}
                  : r \in 1..Len(lp.rows)}

occurrences(seq, v) == Cardinality({i \in 1..Len(seq) : seq[i] = v})

\* C27 as stated (model well-formedness): for every demand matrix, all-zero
\* ones included, and every config, the objective and every emitted row of
\* the phase-1 and phase-2 models reference at least one variable, and every
\* referenced variable is declared exactly once in Bounds and exactly once in
\* General.
C27_Original ==
  \A lp \in {lp1, lp2} \ {NoLP} :
    /\ lp.obj # <<>>
    /\ termlessRows(lp) = {}
    /\ \A v \in referenced(lp) :
         occurrences(lp.bounds, v) = 1 /\ occurrences(lp.generals, v) = 1

\* the failing model: zero demand under the default configuration gives a
\* phase-1 model with an empty objective, no declared variable and the two cap
\* rows, both without a term
C27_ZeroDemandModel ==
  /\ pc = "phase1"
  /\ input = ZeroDemand
  /\ lp1.obj = <<>>
  /\ lp1.generals = <<>>
  /\ Len(lp1.rows) = 2
  /\ termlessRows(lp1) = {1, 2}

\* --- C28 -------------------------------------------------------------------
\* FT + WFT workers of an assignment, in tenths
fullTimers(cols) ==
  sumPrimals([v \in {w \in DOMAIN cols : w.type \in {"FT", "WFT"}} |-> cols[v]])

\* C28 (phase 2 cannot make things worse): whenever phase 1 returned Optimal
\* with an integer assignment, that assignment satisfies every row of the
\* phase-2 model, and the integer assignment the roster is built from,
\* whether phase 2 returned it, failed or was skipped, has no more FT + WFT
\* workers than the phase-1 assignment; the delivered ftCount + wftCount is
\* the FT + WFT count of that assignment.
C28_Phase2NotWorse ==
  /\ []((pc = "phase2" /\ IsIntegerAssignment(r1.Columns))
          => /\ r1.Status = "Optimal"
             /\ result = r1
             /\ satisfiesModel(lp2, r1.Columns))
  /\ [][(/\ pc \in {"loading2", "phase2"}
         /\ pc' = "roster"
         /\ IsIntegerAssignment(r1.Columns)
         /\ IsIntegerAssignment(result'.Columns))
          => fullTimers(result'.Columns) <= fullTimers(r1.Columns)]_vars
  /\ [][(pc = "phase1" /\ pc' = "roster") => result' = r1']_vars
  /\ [][pc = "roster" => result' = result]_vars
  /\ []((OptimalDelivered /\ IsIntegerAssignment(result.Columns))
          => Tenths(payloadOut.ftCount + payloadOut.wftCount)
               = fullTimers(result.Columns))

\* witness: phase 1 returned one full-timer; that assignment satisfies the
\* phase-2 model, headcount row included, in which a part-timer can take the
\* full-timer's place
C28_Witness ==
  /\ pc = "phase2"
  /\ nOpt = 1
  /\ IsIntegerAssignment(r1.Columns)
  /\ fullTimers(r1.Columns) = Tenths(1)
  /\ headcountCaps(lp2) = {1}
  /\ satisfiesModel(lp2, r1.Columns)
  /\ \E v \in Range(lp2.generals) : v.type = "PT"

\* --- runOptimizer: the caller's side of a request ---------------------------
\* worker.terminate(), then resolve or reject: a settled promise stays as it is
settle(c, how) ==
  [c EXCEPT !.terminated = TRUE,
            !.settleCalls = @ + 1,
            !.promise = IF @ = "pending" THEN how ELSE @]

\* variant: the worker is left running when the promise is rejected
WorkerOnMessage_ErrorKeepsWorker ==
  /\ ~client.terminated
  /\ client.handled < Len(posted)
  /\ LET m == posted[client.handled + 1]
         seen == [client EXCEPT !.handled = @ + 1]
     IN client' =
          IF m.type = "progress"
          THEN [seen EXCEPT !.progressCalls = @ + 1,
                            !.lateProgress = @ \/ client.promise # "pending"]
          ELSE IF m.type = "result" THEN settle(seen, "resolved")
          ELSE IF m.type = "error"
               THEN [settle(seen, "rejected") EXCEPT !.terminated = FALSE]
          ELSE seen
  /\ UNCHANGED <<request, pc, posted, solves, lp1, lp2, r1, result, nOpt, earlier>>

\* worker.onmessage: the next message of the worker is handled; a terminated
\* worker delivers no further message
WorkerOnMessage ==
  /\ ~client.terminated
  /\ client.handled < Len(posted)
  /\ LET m == posted[client.handled + 1]
         seen == [client EXCEPT !.handled = @ + 1]
     IN client' =
          IF m.type = "progress"
          THEN [seen EXCEPT !.progressCalls = @ + 1,
                            !.lateProgress = @ \/ client.promise # "pending"]
          ELSE IF m.type = "result" THEN settle(seen, "resolved")
          ELSE IF m.type = "error" THEN settle(seen, "rejected")
          ELSE seen
  /\ UNCHANGED <<request, pc, posted, solves, lp1, lp2, r1, result, nOpt, earlier>>

\* the worker script fails before the handler runs: an error event is on its
\* way to the caller
WorkerScriptFails ==
  /\ pc = "idle"
  /\ pc' = "crashed"
  /\ UNCHANGED <<client, earlier, request, posted, solves, lp1, lp2, r1, result, nOpt>>

\* worker.onerror
WorkerOnError ==
  /\ pc = "crashed"
  /\ ~client.terminated
  /\ client' = settle(client, "rejected")
  /\ UNCHANGED <<request, pc, posted, solves, lp1, lp2, r1, result, nOpt, earlier>>

\* the calls are made for the documented scenarios
CallInputs == ScenarioInputs

InitCalls == Init /\ input \in CallInputs

NextCalls == Next \/ WorkerScriptFails \/ WorkerOnMessage \/ WorkerOnError

\* where the handler can stand
Positions ==
  {"idle", "loading", "phase1", "loading2", "phase2", "roster", "done", "crashed"}

\* a step of the worker: every action of Next, and WorkerScriptFails, moves
\* the handler, one of them is enabled at every position but "done" and
\* "crashed", and the caller's actions leave the handler where it is
HandlerAdvances ==
  /\ pc \notin {"done", "crashed"}
  /\ pc' \in Positions
  /\ pc' # pc

\* the worker's event loop delivers the request, every await of the handler
\* settles and every solve returns or throws; the caller's event loop runs
\* the events queued for it
SpecCalls ==
  /\ InitCalls
  /\ [][NextCalls]_vars
  /\ WF_pc(HandlerAdvances)
  /\ WF_vars(WorkerOnMessage \/ WorkerOnError)

\* --- C29 -------------------------------------------------------------------
\* the terminal messages the worker has posted
terminals == {k \in 1..Len(posted) : posted[k].type \in {"result", "error"}}

\* the value the promise was resolved with
resolvedWith == posted[client.handled].payload

\* C29 (exactly one terminal outcome per request): the worker never posts a
\* second terminal message, and a request its handler has received ends with
\* exactly one, the last message posted, whatever the solver returns or
\* throws in either phase; resolve or reject is called once, by then the
\* worker is terminated, and onProgress is not called on a settled promise;
\* the promise is settled eventually; a roster is delivered only as the
\* roster of a solver result with status Optimal, and a failed phase 1
\* delivers no worker.
C29_OneTerminalOutcome ==
  /\ [](/\ Cardinality(terminals) <= 1
        /\ pc = "done" => terminals = {Len(posted)}
        /\ client.settleCalls <= 1
        /\ client.settleCalls = 1 <=> client.promise # "pending"
        /\ client.terminated <=> client.promise # "pending"
        /\ ~client.lateProgress
        /\ client.promise = "resolved" =>
             /\ posted[client.handled].type = "result"
             /\ IF resolvedWith.status = "optimal"
                THEN /\ result.Status = "Optimal"
                     /\ resolvedWith = resultPayload(result, input)
                ELSE /\ resolvedWith.workers = <<>>
                     /\ r1.Status # "Optimal"
        /\ client.promise = "rejected" =>
             \/ pc = "crashed"
             \/ posted[client.handled].type = "error")
  /\ [](pc \notin {"idle", "crashed"} => <>(pc = "done"))
  /\ <>(client.promise # "pending")

\* witness: the promise is resolved with a roster built from the phase-2
\* result, after four calls of onProgress, and the worker is terminated
C29_Witness ==
  /\ client.promise = "resolved"
  /\ client.terminated
  /\ client.progressCalls = 4
  /\ client.handled = Len(posted)
  /\ pc = "done"
  /\ solves = << <<1, 1>>, <<2, 2>> >>
  /\ usedModel = lp2
  /\ resolvedWith.status = "optimal"
  /\ resolvedWith.totalWorkers = 1

====
